---- MODULE Spec2Model ----
(***************************************************************************)
(* A model of the gemma3-dialogue-system refactor (src/src) and of the     *)
(* DynamicPromptGenerator of dynamic_dialogue_system.py.                   *)
(*                                                                         *)
(* Texts are sequences of characters, one string per character of the      *)
(* source text.  The module is ASCII, so each Japanese character is named  *)
(* by a romanised token: "na" "i" = the phrase NAI of the source, "?" is   *)
(* the full-width question mark, "." the full-width period, "x" "y" are    *)
(* characters that occur in none of the program's phrases.                 *)
(***************************************************************************)
EXTENDS Integers, Sequences, FiniteSets, TLC

VARIABLES
  \* SmartDirector fields
  contradiction_count, last_contradiction_turn, story_momentum, critic_patterns,
  \* DialogueSystem.run_dialogue: arguments, locals and position
  max_turns, turn, pc, dialogue, narrator_text, critic_text, instruction,
  narrator_prompt, turn_start, analysis,
  \* analyze_critic_response called on its own: argument and result
  text, pattern,
  \* PromptGenerator: configuration, cache, last call
  themes_presets, cache, theme, context, requests, reply,
  \* clean_response and the clamps called on one reply: the reply's content,
  \* the role, the module whose clean_response ran, its result, the result of
  \* a second pass, and the text the response function returns
  raw_content, speaker, cleaner, cleaned, cleaned_again, answer,
  \* main (src/src/main.py): position, result of check_ollama, the model
  \* listing, whether config.json was rewritten, number of input() prompts,
  \* the theme selected, the DialogueSystem, the saved document, the status
  main_pc, connected, available_models, config_rewritten, theme_prompts,
  selected_theme, system, document, exit_status,
  \* which SmartDirector is called on its own (dialogue_system or components),
  \* and the question_count field of the one of components.py
  variant, question_count

vars_director == <<contradiction_count, last_contradiction_turn, story_momentum, critic_patterns>>
vars_run == <<max_turns, turn, pc, dialogue, narrator_text, critic_text, instruction,
              narrator_prompt, turn_start, analysis>>
vars_classify == <<text, pattern>>
vars_context == <<themes_presets, cache, theme, context, requests, reply>>
vars_text == <<raw_content, speaker, cleaner, cleaned, cleaned_again, answer>>
vars_main == <<main_pc, connected, available_models, config_rewritten, theme_prompts,
               selected_theme, system, document, exit_status>>
vars_components == <<variant, question_count>>
vars_tools == <<vars_text, vars_main, vars_components>>
vars == <<vars_director, vars_run, vars_classify, vars_context, vars_tools>>

(***************************************************************************)
(* Bounds of the model.                                                    *)
(***************************************************************************)
MaxTurns == 8
MaxDirectorTurn == 6
MaxHistory == 4
MaxMomentum == 2
MaxPieces == 3
MaxReplyLen == 3

(***************************************************************************)
(* Text helpers (Python str operations).                                   *)
(***************************************************************************)
\* p in t, for a non-empty p
Contains(t, p) ==
  \E i \in 1..(Len(t) - Len(p) + 1) : SubSeq(t, i, i + Len(p) - 1) = p

RECURSIVE Flatten(_)
Flatten(ps) == IF ps = <<>> THEN <<>> ELSE Head(ps) \o Flatten(Tail(ps))

\* all sequences over S of length at most n
SeqUpTo(S, n) == UNION {[1..k -> S] : k \in 0..n}

\* the phrases analyze_critic_response looks for
NAI == <<"na", "i">>
OKASHII == <<"o", "ka", "shi", "i">>
ARIENAI == <<"a", "ri", "e", "na", "i">>
QMARK == <<"?">>

(***************************************************************************)
(* SmartDirector (src/src/dialogue_system.py)                              *)
(***************************************************************************)
analyze_critic_response_qfirst(t) ==
  IF Contains(t, QMARK) THEN "question"
  ELSE IF Contains(t, NAI) \/ Contains(t, OKASHII) \/ Contains(t, ARIENAI) THEN "contradiction"
  ELSE IF Len(t) <= 5 THEN "backchannel"
  ELSE "comment"

analyze_critic_response(t) ==
  IF Contains(t, NAI) \/ Contains(t, OKASHII) \/ Contains(t, ARIENAI) THEN "contradiction"
  ELSE IF Contains(t, QMARK) THEN "question"
  ELSE IF Len(t) <= 5 THEN "backchannel"
  ELSE "comment"

NoInstruction == [to |-> "none", action |-> "none", note |-> "none"]
NoAnalysis == [total_turns |-> -1]

\* len(set(critic_patterns[-3:])) == 1, guarded by len(critic_patterns) >= 3
SamePatternThrice(ps) ==
  /\ Len(ps) >= 3
  /\ ps[Len(ps)] = ps[Len(ps) - 1]
  /\ ps[Len(ps) - 1] = ps[Len(ps) - 2]

\* the turn-keyed ladder at the end of get_instruction
basic_strategy_momentum_le2(t, momentum) ==
  IF t < 2 THEN [to |-> "critic", action |-> "listen", note |-> "mazu kiku"]
  ELSE IF t < 4 THEN [to |-> "critic", action |-> "question", note |-> "shitsumon suru"]
  ELSE IF t < 6 THEN
    IF t % 2 = 0 THEN [to |-> "critic", action |-> "analyze", note |-> "bunseki suru"]
    ELSE [to |-> "narrator", action |-> "develop", note |-> "tenkai suru"]
  ELSE
    IF momentum <= 2 THEN [to |-> "narrator", action |-> "climax", note |-> "climax e"]
    ELSE [to |-> "critic", action |-> "final_doubt", note |-> "saigo no gimon"]

basic_strategy(t, momentum) ==
  IF t < 2 THEN [to |-> "critic", action |-> "listen", note |-> "mazu kiku"]
  ELSE IF t < 4 THEN [to |-> "critic", action |-> "question", note |-> "shitsumon suru"]
  ELSE IF t < 6 THEN
    IF t % 2 = 0 THEN [to |-> "critic", action |-> "analyze", note |-> "bunseki suru"]
    ELSE [to |-> "narrator", action |-> "develop", note |-> "tenkai suru"]
  ELSE
    IF momentum < 2 THEN [to |-> "narrator", action |-> "climax", note |-> "climax e"]
    ELSE [to |-> "critic", action |-> "final_doubt", note |-> "saigo no gimon"]

\* the director's fields after the recording step of get_instruction(t, last_critic)
recorded_patterns_even_empty(t, last_critic) ==
  Append(critic_patterns, analyze_critic_response(last_critic))

recorded_patterns(t, last_critic) ==
  IF last_critic # <<>> THEN Append(critic_patterns, analyze_critic_response(last_critic))
  ELSE critic_patterns

recorded_count(t, last_critic) ==
  IF last_critic # <<>> /\ analyze_critic_response(last_critic) = "contradiction"
  THEN contradiction_count + 1 ELSE contradiction_count

recorded_last_turn(t, last_critic) ==
  IF last_critic # <<>> /\ analyze_critic_response(last_critic) = "contradiction"
  THEN t ELSE last_contradiction_turn

\* self.contradiction_count > 2 and turn - self.last_contradiction_turn < 2
too_many_contradictions_from2(t, count, last_turn) == count >= 2 /\ t - last_turn < 2

too_many_contradictions(t, count, last_turn) == count > 2 /\ t - last_turn < 2

\* the value get_instruction returns, from the fields after recording
choose_instruction_breakthrough_first(t, ps, count, last_turn, momentum) ==
  IF too_many_contradictions(t, count, last_turn)
  THEN [to |-> "narrator", action |-> "breakthrough", note |-> "toppakou wo hiraku"]
  ELSE IF SamePatternThrice(ps)
  THEN [to |-> "critic", action |-> "change_pattern", note |-> "pattern wo kaeru"]
  ELSE basic_strategy(t, momentum)

choose_instruction(t, ps, count, last_turn, momentum) ==
  IF SamePatternThrice(ps)
  THEN [to |-> "critic", action |-> "change_pattern", note |-> "pattern wo kaeru"]
  ELSE IF too_many_contradictions(t, count, last_turn)
  THEN [to |-> "narrator", action |-> "breakthrough", note |-> "toppakou wo hiraku"]
  ELSE basic_strategy(t, momentum)

\* self.director.get_instruction(t, last_critic, _): state change and return value
get_instruction(t, last_critic) ==
  /\ critic_patterns' = recorded_patterns(t, last_critic)
  /\ contradiction_count' = recorded_count(t, last_critic)
  /\ last_contradiction_turn' = recorded_last_turn(t, last_critic)
  /\ instruction' = choose_instruction(t, recorded_patterns(t, last_critic),
                                       recorded_count(t, last_critic),
                                       recorded_last_turn(t, last_critic),
                                       story_momentum)

(***************************************************************************)
(* Critic texts a caller may pass to the director: one of each class.      *)
(***************************************************************************)
EmptyText == <<>>
BackchannelText == <<"he", "e", "x", "y">>
QuestionText == <<"do", "ko", "de", "?">>
ContradictionText == <<"mi", "zu", "ha", "na", "i">>
CommentText == <<"o", "mo", "shi", "ro", "i", "ne">>
DirectorTexts == {EmptyText, BackchannelText, QuestionText, ContradictionText}

(***************************************************************************)
(* The director on its own: a fresh SmartDirector whose get_instruction is *)
(* called with any turn and any critic text, and whose story_momentum the  *)
(* owner increments.                                                       *)
(***************************************************************************)
IdleCaller ==
  /\ max_turns = 0 /\ pc = "idle" /\ dialogue = <<>> /\ narrator_text = <<>>
  /\ narrator_prompt = "none" /\ turn_start = 0 /\ analysis = NoAnalysis
IdleRun == IdleCaller /\ turn = 0 /\ critic_text = <<>> /\ instruction = NoInstruction
IdleClassify == text = <<>> /\ pattern = "none"
\* no context (None), no reply requested, and a chat call that raised
NoContext == <<>>
NoReply == <<"no reply">>
Raised == <<"raised">>
EmptyCache == [t \in {} |-> NoContext]
IdleContext ==
  /\ themes_presets = <<>> /\ cache = EmptyCache /\ theme = <<>> /\ context = NoContext
  /\ requests = 0 /\ reply = NoReply

\* no text yet
Unset == <<"unset">>
IdleText ==
  /\ raw_content = Unset /\ speaker = "none" /\ cleaner = "none"
  /\ cleaned = Unset /\ cleaned_again = Unset /\ answer = Unset
\* main has not listed the models, saved a document, returned
NoListing == {<<"no listing">>}
NoDocument == [saved |-> FALSE]
NotReturned == -1
IdleMain ==
  /\ main_pc = "idle" /\ connected = "unknown" /\ available_models = NoListing
  /\ config_rewritten = FALSE /\ theme_prompts = 0 /\ selected_theme = <<>>
  /\ system = "none" /\ document = NoDocument /\ exit_status = NotReturned
IdleComponents == variant = "none" /\ question_count = 0
IdleTools == IdleText /\ IdleMain /\ IdleComponents

FreshDirector ==
  /\ contradiction_count = 0
  /\ last_contradiction_turn = -1
  /\ story_momentum = 0
  /\ critic_patterns = <<>>

InitDirector ==
  /\ FreshDirector
  /\ IdleRun /\ IdleClassify /\ IdleContext /\ IdleTools

DirectorCall ==
  \E t \in 0..MaxDirectorTurn, c \in DirectorTexts :
    /\ c # <<>> => Len(critic_patterns) < MaxHistory
    /\ get_instruction(t, c)
    /\ turn' = t
    /\ critic_text' = c
    /\ UNCHANGED <<story_momentum, max_turns, pc, dialogue, narrator_text,
                   narrator_prompt, turn_start, analysis, vars_classify, vars_tools, vars_context>>

MomentumBump ==
  /\ story_momentum < MaxMomentum
  /\ story_momentum' = story_momentum + 1
  /\ UNCHANGED <<contradiction_count, last_contradiction_turn, critic_patterns,
                 vars_run, vars_classify, vars_tools, vars_context>>

NextDirector == DirectorCall \/ MomentumBump
SpecDirector == InitDirector /\ [][NextDirector]_vars


\* C4: after get_instruction has recorded the class of a non-empty last_critic,
\* a pattern history of at least 3 entries whose last 3 entries are identical
\* makes the returned instruction critic/change_pattern, whatever the turn,
\* contradiction_count, last_contradiction_turn and story_momentum are.
LastThreeIdentical ==
  /\ Len(critic_patterns) >= 3
  /\ Cardinality({critic_patterns[i] : i \in (Len(critic_patterns) - 2)..Len(critic_patterns)}) = 1

C4_ChangePatternFirst ==
  (instruction # NoInstruction /\ critic_text # <<>> /\ LastThreeIdentical)
    => (instruction.to = "critic" /\ instruction.action = "change_pattern")

\* three contradictions in a row: the breakthrough condition holds as well
C4_Witness ==
  /\ instruction.action = "change_pattern"
  /\ critic_text # <<>>
  /\ LastThreeIdentical
  /\ contradiction_count > 2
  /\ turn - last_contradiction_turn < 2

\* C5: get_instruction returns narrator/breakthrough exactly when the
\* change_pattern rule does not fire and, after the call's update,
\* contradiction_count > 2 and turn - last_contradiction_turn < 2; breakthrough
\* is never returned while contradiction_count <= 2.
C5_BreakthroughExactly ==
  instruction # NoInstruction =>
    /\ (instruction.to = "narrator" /\ instruction.action = "breakthrough")
         <=> (/\ ~LastThreeIdentical
              /\ contradiction_count > 2
              /\ turn - last_contradiction_turn < 2)
    /\ (instruction.action = "breakthrough" => contradiction_count > 2)

C5_Witness ==
  /\ instruction.action = "breakthrough"
  /\ instruction.to = "narrator"
  /\ contradiction_count = 3
  /\ ~LastThreeIdentical

\* C6: when neither the change_pattern rule nor the breakthrough rule fires,
\* get_instruction returns critic/listen for turns 0-1, critic/question for
\* turns 2-3, critic/analyze for turn 4, narrator/develop for turn 5, and for
\* turn >= 6 narrator/climax while story_momentum < 2, otherwise
\* critic/final_doubt.  Stated of every step that is a get_instruction call
\* (the steps that leave story_momentum alone).
NeitherRuleFires ==
  /\ ~LastThreeIdentical
  /\ ~(contradiction_count > 2 /\ turn - last_contradiction_turn < 2)

LadderAnswer ==
  LET to == instruction.to
      action == instruction.action
  IN /\ turn \in {0, 1} => (to = "critic" /\ action = "listen")
     /\ turn \in {2, 3} => (to = "critic" /\ action = "question")
     /\ turn = 4 => (to = "critic" /\ action = "analyze")
     /\ turn = 5 => (to = "narrator" /\ action = "develop")
     /\ (turn >= 6 /\ story_momentum < 2) => (to = "narrator" /\ action = "climax")
     /\ (turn >= 6 /\ story_momentum >= 2) => (to = "critic" /\ action = "final_doubt")

C6_DefaultLadder ==
  [][story_momentum' = story_momentum => (NeitherRuleFires' => LadderAnswer')]_vars

C6_Witness ==
  /\ instruction.action = "final_doubt"
  /\ turn >= 6
  /\ story_momentum >= 2
  /\ NeitherRuleFires
  /\ contradiction_count > 2

(***************************************************************************)
(* analyze_critic_response on its own, over the texts made of at most      *)
(* MaxPieces of the pieces below.                                          *)
(***************************************************************************)
ClassifyPieces ==
  {NAI, OKASHII, ARIENAI, QMARK, <<"x">>, <<"x", "y", "x">>, <<"na">>, <<"i">>}
ClassifyTexts == {Flatten(ps) : ps \in SeqUpTo(ClassifyPieces, MaxPieces)}

InitClassify ==
  /\ text \in ClassifyTexts
  /\ pattern = "none"
  /\ FreshDirector /\ IdleRun /\ IdleContext /\ IdleTools

Classify ==
  /\ pattern = "none"
  /\ pattern' = analyze_critic_response(text)
  /\ UNCHANGED <<text, vars_director, vars_run, vars_context, vars_tools>>

NextClassify == Classify
SpecClassify == InitClassify /\ [][NextClassify]_vars

\* C7: analyze_critic_response puts every text in exactly one of contradiction,
\* question, backchannel, comment: a text with a negation phrase is a
\* contradiction even with a question mark or a length <= 5; otherwise a text
\* with a question mark is a question; otherwise a text of length <= 5 is a
\* backchannel; otherwise it is a comment.
HasNegation(t) ==
  \/ \E i \in 1..(Len(t) - 1) : t[i] = "na" /\ t[i + 1] = "i"
  \/ \E i \in 1..(Len(t) - 3) :
       t[i] = "o" /\ t[i + 1] = "ka" /\ t[i + 2] = "shi" /\ t[i + 3] = "i"
  \/ \E i \in 1..(Len(t) - 4) :
       t[i] = "a" /\ t[i + 1] = "ri" /\ t[i + 2] = "e" /\ t[i + 3] = "na" /\ t[i + 4] = "i"
HasQuestionMark(t) == \E i \in 1..Len(t) : t[i] = "?"

C7_ClassifyPriority ==
  pattern # "none" =>
    /\ pattern \in {"contradiction", "question", "backchannel", "comment"}
    /\ (pattern = "contradiction") <=> HasNegation(text)
    /\ (pattern = "question") <=> (~HasNegation(text) /\ HasQuestionMark(text))
    /\ (pattern = "backchannel")
         <=> (~HasNegation(text) /\ ~HasQuestionMark(text) /\ Len(text) <= 5)
    /\ (pattern = "comment")
         <=> (~HasNegation(text) /\ ~HasQuestionMark(text) /\ Len(text) > 5)

\* a negation phrase together with a question mark in a text of length <= 5
C7_Witness ==
  /\ pattern = "contradiction"
  /\ HasNegation(text)
  /\ HasQuestionMark(text)
  /\ Len(text) <= 5


(***************************************************************************)
(* clean_response (src/src/dialogue_system.py).  "[" "]" are the ASCII     *)
(* brackets, "lq" "rq" the corner quotes, "," the ideographic comma, " "   *)
(* and "nl" a space and a line break.                                      *)
(***************************************************************************)
Whitespace == {" ", "nl"}

\* for t starting with "[": the index of the "]" that ends the shortest match
\* of \[.*?\] there (. matches no line break), 0 when there is none
CloseBracket(t) ==
  LET ends == {j \in 2..Len(t) : t[j] = "]" /\ \A k \in 2..(j - 1) : t[k] # "nl"}
  IN IF ends = {} THEN 0 ELSE CHOOSE j \in ends : \A k \in ends : j <= k

\* re.sub(r'\[.*?\]', '', t)
RECURSIVE remove_brackets(_)
remove_brackets(t) ==
  IF t = <<>> THEN <<>>
  ELSE IF Head(t) = "[" /\ CloseBracket(t) # 0
       THEN remove_brackets(SubSeq(t, CloseBracket(t) + 1, Len(t)))
       ELSE <<Head(t)>> \o remove_brackets(Tail(t))

\* re.sub of a character class: every character of cs removed
remove_chars(t, cs) == SelectSeq(t, LAMBDA c : c \notin cs)

\* re.sub(r'^p', '', t)
remove_prefix(t, p) ==
  IF Len(t) >= Len(p) /\ SubSeq(t, 1, Len(p)) = p THEN SubSeq(t, Len(p) + 1, Len(t)) ELSE t

\* t.replace(p, "")
RECURSIVE remove_phrase(_, _)
remove_phrase(t, p) ==
  IF Len(t) < Len(p) THEN t
  ELSE IF SubSeq(t, 1, Len(p)) = p THEN remove_phrase(SubSeq(t, Len(p) + 1, Len(t)), p)
  ELSE <<Head(t)>> \o remove_phrase(Tail(t), p)

RECURSIVE remove_phrases(_, _)
remove_phrases(t, ps) ==
  IF ps = <<>> THEN t ELSE remove_phrases(remove_phrase(t, Head(ps)), Tail(ps))

\* ' '.join(t.split())
RECURSIVE normalize_whitespace(_)
normalize_whitespace(t) ==
  IF t = <<>> THEN <<>>
  ELSE IF Head(t) \in Whitespace THEN normalize_whitespace(Tail(t))
  ELSE LET stops == {i \in 1..Len(t) : t[i] \in Whitespace}
           n == IF stops = {} THEN Len(t) + 1 ELSE CHOOSE i \in stops : \A k \in stops : i <= k
           rest == normalize_whitespace(SubSeq(t, n, Len(t)))
       IN SubSeq(t, 1, n - 1) \o (IF rest = <<>> THEN <<>> ELSE <<" ">> \o rest)

HAI == <<"ha", "i", ",">>
EETO == <<"e", "e", "to", ",">>
SOUDESUNE == <<"so", "u", "de", "su", "ne", ",">>
meta_phrases ==
  << <<"shou", "chi", "shi", "ma", "shi", "ta">>,
     <<"wa", "ka", "ri", "ma", "shi", "ta">>,
     <<"ri_", "kai", "shi", "ma", "shi", "ta">>,
     <<"go", "shi_", "teki">>,
     <<"shuu", "sei">>,
     <<"tashi", "ka", "ni">> >>

\* the list of src/src/utils.py
utils_meta_phrases ==
  meta_phrases \o
  << <<"to", "i", "u", "shitsu", "mon">>,
     <<"to", "i", "u", "shi_", "teki">>,
     <<"to", "i", "u", "gi", "mon">>,
     <<"ni", "tai", "su", "ru", "kota", "e">>,
     <<"ni", "kota", "e", "ru">> >>

\* clean_response of src/src/utils.py: the same steps with the longer list
utils_clean_response(t, role) ==
  LET t1 == remove_brackets(t)
      t2 == remove_chars(t1, {"lq", "rq"})
      t3 == remove_prefix(t2, HAI)
      t4 == remove_prefix(t3, EETO)
      t5 == remove_prefix(t4, SOUDESUNE)
      t6 == IF role = "narrator" THEN remove_phrases(t5, utils_meta_phrases) ELSE t5
  IN normalize_whitespace(t6)

clean_response(t, role) ==
  LET t1 == remove_brackets(t)
      t2 == remove_chars(t1, {"lq", "rq"})
      t3 == remove_prefix(t2, HAI)
      t4 == remove_prefix(t3, EETO)
      t5 == remove_prefix(t4, SOUDESUNE)
      t6 == IF role = "narrator" THEN remove_phrases(t5, meta_phrases) ELSE t5
  IN normalize_whitespace(t6)

(***************************************************************************)
(* The clamps of get_narrator_response and get_critic_response.            *)
(***************************************************************************)
\* re.split on a character class, and str.split on one character
RECURSIVE split_on(_, _)
split_on(t, ds) ==
  LET cuts == {i \in 1..Len(t) : t[i] \in ds}
  IN IF cuts = {} THEN <<t>>
     ELSE LET i == CHOOSE c \in cuts : \A k \in cuts : c <= k
          IN <<SubSeq(t, 1, i - 1)>> \o split_on(SubSeq(t, i + 1, Len(t)), ds)

\* the 2-sentence limit
narrator_clamp_keeps_three(t) ==
  LET sentences == SelectSeq(split_on(t, {".", "!", "?"}),
                             LAMBDA f : \E i \in 1..Len(f) : f[i] \notin Whitespace)
  IN IF Len(sentences) > 3
     THEN sentences[1] \o <<".">> \o sentences[2] \o <<".">> \o sentences[3] \o <<".">>
     ELSE t

narrator_clamp(t) ==
  LET sentences == SelectSeq(split_on(t, {".", "!", "?"}),
                             LAMBDA f : \E i \in 1..Len(f) : f[i] \notin Whitespace)
  IN IF Len(sentences) > 2 THEN sentences[1] \o <<".">> \o sentences[2] \o <<".">> ELSE t

\* the length limit: the for/else over the delimiters
RECURSIVE cut_at_first(_, _)
cut_at_first(t, ds) ==
  IF ds = <<>> THEN SubSeq(t, 1, 20)
  ELSE IF Contains(t, <<Head(ds)>>) THEN split_on(t, {Head(ds)})[1] \o <<Head(ds)>>
  ELSE cut_at_first(t, Tail(ds))

critic_clamp_comma_first(t) ==
  IF Len(t) > 20 THEN cut_at_first(t, <<",", ".", "?", "!">>) ELSE t

critic_clamp(t) == IF Len(t) > 20 THEN cut_at_first(t, <<".", "?", "!", ",">>) ELSE t

\* the template get_narrator_response picks
narrator_template(self_turn, critic, action) ==
  IF self_turn = 0 THEN "start"
  ELSE IF Contains(critic, NAI) \/ Contains(critic, OKASHII) THEN "contradiction_response"
  ELSE IF action = "breakthrough" THEN "breakthrough"
  ELSE IF action = "develop" THEN "develop"
  ELSE IF action = "climax" THEN "climax"
  ELSE "continue"


(***************************************************************************)
(* DialogueSystem.run_dialogue (src/src/dialogue_system.py) on a freshly   *)
(* constructed system.  turn is the loop variable and self.turn; pc is the *)
(* position in the loop body; turn_start is len(self.dialogue) at the top  *)
(* of the current iteration.  Each ollama.chat call either returns one of  *)
(* the replies below or raises, and nothing in run_dialogue,               *)
(* get_narrator_response or get_critic_response catches what it raises.    *)
(***************************************************************************)
FixedNarration == <<"x", "y", ".", "y", "x", ".">>
QuotedNothing == <<"lq", "rq">>
NarratorReplies == {FixedNarration}
CriticReplies == {BackchannelText, QuestionText, ContradictionText, QuotedNothing}

InitRun ==
  /\ FreshDirector
  /\ max_turns \in 1..MaxTurns
  /\ turn = 0
  /\ pc = "start"
  /\ dialogue = <<>>
  /\ narrator_text = <<>>
  /\ critic_text = <<>>
  /\ instruction = NoInstruction
  /\ narrator_prompt = "none"
  /\ turn_start = 0
  /\ analysis = NoAnalysis
  /\ IdleClassify /\ IdleContext /\ IdleTools

\* the value the for statement gives turn next
next_turn_skips_one == IF pc = "start" THEN 0 ELSE turn + 2

next_turn == IF pc = "start" THEN 0 ELSE turn + 1

\* if turn == 0 or instruction["to"] == "narrator"
narrator_turn_always(t, to) == TRUE

narrator_turn_due(t, to) == t = 0 \/ to = "narrator"

\* if turn < max_turns - 1 and (turn == 0 or instruction["to"] == "critic")
critic_turn_on_last_too(t, n, to) == t = 0 \/ to = "critic"

critic_turn_due(t, n, to) == t < n - 1 /\ (t = 0 \/ to = "critic")

\* if instruction["to"] == "critic" and turn < max_turns - 2
continuation_never(t, n, to) == FALSE

continuation_due(t, n, to) == to = "critic" /\ t < n - 2

narrator_entry_turns_back(content, t) ==
  [role |-> "narrator", content |-> content, turn |-> 0 - t, pattern |-> "none"]

narrator_entry(content, t) ==
  [role |-> "narrator", content |-> content, turn |-> t, pattern |-> "none"]
critic_entry(content, t, p) ==
  [role |-> "critic", content |-> content, turn |-> t, pattern |-> p]

\* self.director.story_momentum += 1
momentum_left_alone(momentum) == momentum

momentum_after_narration(momentum) == momentum + 1

\* what get_narrator_response and get_critic_response make of a reply
narrator_response(raw) == narrator_clamp(clean_response(raw, "narrator"))
critic_response(raw) == critic_clamp(clean_response(raw, "critic"))

\* the texts the two functions can return, over the replies of the backend
NarratorResponses == {narrator_response(raw) : raw \in NarratorReplies}
CriticResponses == {critic_response(raw) : raw \in CriticReplies}

\* for turn in range(max_turns): self.turn = turn; instruction = get_instruction(...)
Direct ==
  /\ pc \in {"start", "loop"}
  /\ next_turn < max_turns
  /\ turn' = next_turn
  /\ get_instruction(next_turn, critic_text)
  /\ turn_start' = Len(dialogue)
  /\ pc' = "narrator"
  /\ UNCHANGED <<story_momentum, max_turns, dialogue, narrator_text, critic_text,
                 narrator_prompt, analysis, vars_classify, vars_tools, vars_context>>

\* the narrator's turn: the chat call returns
NarratorSpeaks ==
  /\ pc = "narrator"
  /\ narrator_turn_due(turn, instruction.to)
  /\ \E returned \in NarratorResponses :
       /\ narrator_text' = returned
       /\ dialogue' = Append(dialogue, narrator_entry(returned, turn))
  /\ narrator_prompt' = narrator_template(turn, critic_text, instruction.action)
  /\ story_momentum' = momentum_after_narration(story_momentum)
  /\ pc' = "critic"
  /\ UNCHANGED <<contradiction_count, last_contradiction_turn, critic_patterns,
                 max_turns, turn, critic_text, instruction, turn_start, analysis,
                 vars_classify, vars_tools, vars_context>>

\* the narrator's turn: the chat call raises, and so does run_dialogue
NarratorRaises ==
  /\ pc = "narrator"
  /\ narrator_turn_due(turn, instruction.to)
  /\ narrator_prompt' = narrator_template(turn, critic_text, instruction.action)
  /\ pc' = "raised"
  /\ UNCHANGED <<vars_director, max_turns, turn, dialogue, narrator_text, critic_text,
                 instruction, turn_start, analysis, vars_classify, vars_tools, vars_context>>

NarratorSkipped ==
  /\ pc = "narrator"
  /\ ~narrator_turn_due(turn, instruction.to)
  /\ pc' = "critic"
  /\ UNCHANGED <<vars_director, max_turns, turn, dialogue, narrator_text, critic_text,
                 instruction, narrator_prompt, turn_start, analysis,
                 vars_classify, vars_tools, vars_context>>

\* the critic's turn: the chat call returns; the entry carries the pattern
CriticSpeaks ==
  /\ pc = "critic"
  /\ critic_turn_due(turn, max_turns, instruction.to)
  /\ \E returned \in CriticResponses :
       /\ critic_text' = returned
       /\ dialogue' = Append(dialogue,
            critic_entry(returned, turn, analyze_critic_response(returned)))
  /\ pc' = "continue"
  /\ UNCHANGED <<vars_director, max_turns, turn, narrator_text, instruction,
                 narrator_prompt, turn_start, analysis, vars_classify, vars_tools, vars_context>>

CriticRaises ==
  /\ pc = "critic"
  /\ critic_turn_due(turn, max_turns, instruction.to)
  /\ pc' = "raised"
  /\ UNCHANGED <<vars_director, max_turns, turn, dialogue, narrator_text, critic_text,
                 instruction, narrator_prompt, turn_start, analysis,
                 vars_classify, vars_tools, vars_context>>

CriticSkipped ==
  /\ pc = "critic"
  /\ ~critic_turn_due(turn, max_turns, instruction.to)
  /\ pc' = "loop"
  /\ UNCHANGED <<vars_director, max_turns, turn, dialogue, narrator_text, critic_text,
                 instruction, narrator_prompt, turn_start, analysis,
                 vars_classify, vars_tools, vars_context>>

\* the narrator goes on after the critic: get_narrator_response(critic_text)
ContinuationSpeaks ==
  /\ pc = "continue"
  /\ continuation_due(turn, max_turns, instruction.to)
  /\ \E returned \in NarratorResponses :
       /\ narrator_text' = returned
       /\ dialogue' = Append(dialogue, narrator_entry(returned, turn))
  /\ narrator_prompt' = narrator_template(turn, critic_text, "continue")
  /\ story_momentum' = momentum_after_narration(story_momentum)
  /\ pc' = "loop"
  /\ UNCHANGED <<contradiction_count, last_contradiction_turn, critic_patterns,
                 max_turns, turn, critic_text, instruction, turn_start, analysis,
                 vars_classify, vars_tools, vars_context>>

ContinuationRaises ==
  /\ pc = "continue"
  /\ continuation_due(turn, max_turns, instruction.to)
  /\ narrator_prompt' = narrator_template(turn, critic_text, "continue")
  /\ pc' = "raised"
  /\ UNCHANGED <<vars_director, max_turns, turn, dialogue, narrator_text, critic_text,
                 instruction, turn_start, analysis, vars_classify, vars_tools, vars_context>>

ContinuationSkipped ==
  /\ pc = "continue"
  /\ ~continuation_due(turn, max_turns, instruction.to)
  /\ pc' = "loop"
  /\ UNCHANGED <<vars_director, max_turns, turn, dialogue, narrator_text, critic_text,
                 instruction, narrator_prompt, turn_start, analysis,
                 vars_classify, vars_tools, vars_context>>

\* return self.dialogue
Return ==
  /\ pc \in {"start", "loop"}
  /\ next_turn >= max_turns
  /\ pc' = "done"
  /\ UNCHANGED <<vars_director, max_turns, turn, dialogue, narrator_text, critic_text,
                 instruction, narrator_prompt, turn_start, analysis,
                 vars_classify, vars_tools, vars_context>>

\* sum of the lengths and number of the entries of a role (their quotient is
\* the average; 0 when there is no entry)
RECURSIVE total_length(_, _)
total_length(d, r) ==
  IF d = <<>> THEN 0
  ELSE (IF Head(d).role = r THEN Len(Head(d).content) ELSE 0) + total_length(Tail(d), r)

entries_of(d, r) == SelectSeq(d, LAMBDA e : e.role = r)

analyze_dialogue ==
  [total_turns |-> Len(dialogue),
   contradiction_count |-> contradiction_count,
   patterns |-> [p \in {e.pattern : e \in {dialogue[i] : i \in {k \in 1..Len(dialogue) :
                                                    dialogue[k].role = "critic"}}}
                 |-> Len(SelectSeq(dialogue, LAMBDA e : e.role = "critic" /\ e.pattern = p))],
   avg_length |-> [narrator |-> <<total_length(dialogue, "narrator"),
                                  Len(entries_of(dialogue, "narrator"))>>,
                   critic |-> <<total_length(dialogue, "critic"),
                                Len(entries_of(dialogue, "critic"))>>]]

\* main: analysis = system.analyze_dialogue()
Analyze ==
  /\ pc = "done"
  /\ analysis' = analyze_dialogue
  /\ pc' = "analyzed"
  /\ UNCHANGED <<vars_director, max_turns, turn, dialogue, narrator_text, critic_text,
                 instruction, narrator_prompt, turn_start, vars_classify, vars_tools, vars_context>>

Next ==
  \/ Direct
  \/ NarratorSpeaks \/ NarratorRaises \/ NarratorSkipped
  \/ CriticSpeaks \/ CriticRaises \/ CriticSkipped
  \/ ContinuationSpeaks \/ ContinuationRaises \/ ContinuationSkipped
  \/ Return
  \/ Analyze
Spec == InitRun /\ [][Next]_vars


\* C1: run_dialogue never raises because of an LLM call: a failed narrator or
\* critic request is caught and replaced by a placeholder, and the loop
\* completes all max_turns iterations.
C1_NeverRaises == pc # "raised"

\* C2: with a backend that always gives the same 2-sentence narration and the
\* same 4-character critic text (no question mark, no negation phrase),
\* run_dialogue(8) on a fresh system gives a transcript of one fixed length
\* whose roles are those the loop appends for the targets of the Director's
\* instructions, and analyze_dialogue().total_turns is that length.
Roles(d) == [i \in 1..Len(d) |-> d[i].role]

Scripted ==
  \A i \in 1..Len(dialogue) :
    /\ dialogue[i].role = "narrator" => dialogue[i].content = FixedNarration
    /\ dialogue[i].role = "critic" => dialogue[i].content = BackchannelText

\* the roles the loop of run_dialogue(n) appends from turn t on when the
\* instruction of turn k targets targets[k + 1]
RECURSIVE roles_for_targets(_, _, _)
roles_for_targets(targets, t, n) ==
  IF t >= n THEN <<>>
  ELSE LET to == targets[t + 1]
           narrates == t = 0 \/ to = "narrator"
           criticizes == t < n - 1 /\ (t = 0 \/ to = "critic")
           continues == criticizes /\ to = "critic" /\ t < n - 2
       IN (IF narrates THEN <<"narrator">> ELSE <<>>)
          \o (IF criticizes THEN <<"critic">> ELSE <<>>)
          \o (IF continues THEN <<"narrator">> ELSE <<>>)
          \o roles_for_targets(targets, t + 1, n)

\* the targets of the default ladder for turns 0..7 (story_momentum is past
\* the threshold 2 from turn 1 on), and the targets the Director issues in
\* the scripted run: the ladder for turns 0..2, change_pattern from turn 3 on
LadderTargets == [k \in 1..8 |-> basic_strategy(k - 1, 2).to]
IssuedTargets == [k \in 1..8 |-> "critic"]

ScriptedRunOver == pc \in {"done", "analyzed"} /\ max_turns = 8 /\ Scripted

\* the claim as stated: the roles follow the default ladder
C2_LadderRoles ==
  ScriptedRunOver => Roles(dialogue) = roles_for_targets(LadderTargets, 0, 8)

\* the claim as amended: the roles follow the instructions issued
C2_IssuedRoles ==
  ScriptedRunOver =>
    /\ Roles(dialogue) = roles_for_targets(IssuedTargets, 0, 8)
    /\ Len(dialogue) = 14
    /\ pc = "analyzed" => analysis.total_turns = Len(dialogue)

C2_Witness ==
  /\ pc = "analyzed" /\ max_turns = 8 /\ Scripted
  /\ Len(dialogue) = 14
  /\ analysis.total_turns = 14
  /\ instruction.action = "change_pattern"

\* C3: every outer iteration of run_dialogue appends at most 2 entries.
C3_AtMostTwo == Len(dialogue) - turn_start <= 2

\* as amended: at most 3 entries in the iteration of turn 0, at most 2 in
\* every later one
C3_AtMostThreeThenTwo == Len(dialogue) - turn_start <= (IF turn = 0 THEN 3 ELSE 2)

\* the iteration of turn 1 is over and appended 2 entries after the 3 of turn 0
C3_Witness ==
  /\ pc = "loop" /\ turn = 1
  /\ turn_start = 3
  /\ Len(dialogue) - turn_start = 2

\* C11: during a run_dialogue run the transcript is append-only and
\* turn-monotonic: every step leaves the earlier transcript as a prefix of the
\* current one (no entry removed, reordered or modified), and the turn of each
\* entry is greater than or equal to the turn of the entry before it.
C11_AppendOnlyMonotonic ==
  /\ [](\A i \in 1..(Len(dialogue) - 1) : dialogue[i].turn <= dialogue[i + 1].turn)
  /\ [][/\ Len(dialogue') >= Len(dialogue)
        /\ SubSeq(dialogue', 1, Len(dialogue)) = dialogue]_vars

\* a finished run whose transcript has entries of one turn side by side and
\* entries of several turns
C11_Witness ==
  /\ pc = "done"
  /\ Len(dialogue) >= 5
  /\ dialogue[1].turn = dialogue[2].turn
  /\ dialogue[1].turn < dialogue[Len(dialogue)].turn
  /\ \E i \in 1..(Len(dialogue) - 1) :
       dialogue[i].role = "critic" /\ dialogue[i + 1].role = "narrator"
                                  /\ dialogue[i].turn < dialogue[i + 1].turn


(***************************************************************************)
(* PromptGenerator.get_context (src/src/dialogue_system.py; the one of     *)
(* src/src/components.py reads the same).  A reply is a sequence of        *)
(* tokens: "{" and "}", "m" for a well-formed member list, "x" for text    *)
(* that is no JSON, "fence_json" and "fence" for the code fences (three backquotes, with and without json), "nl" for a    *)
(* line break.  A context is a JSON document, written as its tokens.       *)
(***************************************************************************)
KEY1 == <<"ka", "sei">>
KEY2 == <<"ko", "n", "bi", "ni">>
Preset1 == <<"{", "preset1", "}">>
Preset2 == <<"{", "preset2", "}">>
ThemeBoth == <<"ka", "sei", "no", "ko", "n", "bi", "ni">>
ThemeFree == <<"yu", "me">>
Themes == {ThemeBoth, ThemeFree}

\* config["themes_presets"], in the order of the file
PresetTables ==
  LET e1 == [key |-> KEY1, preset |-> Preset1]
      e2 == [key |-> KEY2, preset |-> Preset2]
  IN {<<e1>>, <<e2>>, <<e1, e2>>, <<e2, e1>>}

ReplyTokens == {"{", "}", "m", "x", "fence_json", "fence", "nl"}
Replies == SeqUpTo(ReplyTokens, MaxReplyLen)

\* _get_fallback_context
FallbackContext == <<"{", "fallback", "}">>

\* re.sub(fence + r'\n?', '', c)
RECURSIVE remove_fence(_, _)
remove_fence(c, fence) ==
  IF c = <<>> THEN <<>>
  ELSE IF Head(c) = fence
       THEN IF Len(c) >= 2 /\ c[2] = "nl" THEN remove_fence(SubSeq(c, 3, Len(c)), fence)
            ELSE remove_fence(Tail(c), fence)
       ELSE <<Head(c)>> \o remove_fence(Tail(c), fence)

strip_fences(c) == remove_fence(remove_fence(c, "fence_json"), "fence")

\* re.search(r'\{.*\}', c, re.DOTALL): the span from the first "{" to the last
\* "}" after it; NoContext when there is none
json_span(c) ==
  LET opens == {i \in 1..Len(c) : c[i] = "{"}
      closes == {i \in 1..Len(c) : c[i] = "}"}
  IN IF opens = {} \/ closes = {} THEN NoContext
     ELSE LET i == CHOOSE o \in opens : \A k \in opens : o <= k
              j == CHOOSE o \in closes : \A k \in closes : o >= k
          IN IF i < j THEN SubSeq(c, i, j) ELSE NoContext

\* json.loads: the document without its white space when it is well-formed,
\* NoContext when json.loads raises
json_loads(span) ==
  LET doc == remove_chars(span, {"nl"})
  IN IF doc \in {<<"{", "}">>, <<"{", "m", "}">>} THEN doc ELSE NoContext

\* _generate_dynamic, given what the generation request did: the except clause
\* and a missing match both lead to the fallback
generate_dynamic_no_fallback(r) ==
  IF r = Raised THEN FallbackContext
  ELSE IF json_span(strip_fences(r)) = NoContext THEN NoContext
  ELSE IF json_loads(json_span(strip_fences(r))) = NoContext THEN FallbackContext
  ELSE json_loads(json_span(strip_fences(r)))

generate_dynamic(r) ==
  IF r = Raised THEN FallbackContext
  ELSE IF json_span(strip_fences(r)) = NoContext THEN FallbackContext
  ELSE IF json_loads(json_span(strip_fences(r))) = NoContext THEN FallbackContext
  ELSE json_loads(json_span(strip_fences(r)))

\* for key, preset in themes_presets.items(): if key in theme: the preset of
\* the first key of the table that is a substring of the theme
RECURSIVE last_preset(_, _)
last_preset(table, t) ==
  IF table = <<>> THEN NoContext
  ELSE IF Contains(t, table[Len(table)].key) THEN table[Len(table)].preset
  ELSE last_preset(SubSeq(table, 1, Len(table) - 1), t)

RECURSIVE first_preset(_, _)
first_preset(table, t) ==
  IF table = <<>> THEN NoContext
  ELSE IF Contains(t, Head(table).key) THEN Head(table).preset
  ELSE first_preset(Tail(table), t)

\* if theme in self.cache
cached_never(t) == FALSE

cached(t) == t \in DOMAIN cache

\* self.cache[theme] = c
cache_put(t, c) == [k \in DOMAIN cache \cup {t} |-> IF k = t THEN c ELSE cache[k]]

InitContext ==
  /\ themes_presets \in PresetTables
  /\ cache = EmptyCache
  /\ theme = <<>>
  /\ context = NoContext
  /\ requests = 0
  /\ reply = NoReply
  /\ FreshDirector /\ IdleRun /\ IdleClassify /\ IdleTools

\* get_context(t) answered from the cache
GetContextCached ==
  \E t \in Themes :
    /\ cached(t)
    /\ theme' = t
    /\ context' = cache[t]
    /\ requests' = 0
    /\ reply' = NoReply
    /\ UNCHANGED <<themes_presets, cache, vars_director, vars_run, vars_classify, vars_tools>>

\* get_context(t) answered from the preset table
GetContextPreset ==
  \E t \in Themes :
    /\ ~cached(t)
    /\ first_preset(themes_presets, t) # NoContext
    /\ theme' = t
    /\ context' = first_preset(themes_presets, t)
    /\ cache' = cache_put(t, first_preset(themes_presets, t))
    /\ requests' = 0
    /\ reply' = NoReply
    /\ UNCHANGED <<themes_presets, vars_director, vars_run, vars_classify, vars_tools>>

\* get_context(t) answered by _generate_dynamic: the probe call (whose failure
\* only selects the fallback model) and the generation request, which raises
\* or returns a reply
GetContextGenerated ==
  \E t \in Themes :
    /\ ~cached(t)
    /\ first_preset(themes_presets, t) = NoContext
    /\ theme' = t
    /\ requests' = 2
    /\ \E r \in Replies \cup {Raised} :
         /\ reply' = r
         /\ context' = generate_dynamic(r)
         /\ cache' = cache_put(t, generate_dynamic(r))
    /\ UNCHANGED <<themes_presets, vars_director, vars_run, vars_classify, vars_tools>>

NextContext == GetContextCached \/ GetContextPreset \/ GetContextGenerated
SpecContext == InitContext /\ [][NextContext]_vars

\* C8: once a get_context call has returned for a theme, a later call with
\* that theme returns the cached value, equal to the first result, and issues
\* no LLM request; a cache entry is never replaced.  Every call leaves its
\* result in the cache under its theme.
C8_ResultCached == theme # <<>> => (theme \in DOMAIN cache /\ cache[theme] = context)

C8_CacheStable ==
  /\ []C8_ResultCached
  /\ [][/\ \A t \in DOMAIN cache : t \in DOMAIN cache' /\ cache'[t] = cache[t]
        /\ theme' \in DOMAIN cache =>
             (context' = cache[theme'] /\ requests' = 0 /\ cache' = cache)]_vars

\* a second call for a theme whose first call generated its context
C8_Witness ==
  /\ theme = ThemeFree
  /\ requests = 0
  /\ context = <<"{", "m", "}">>
  /\ cache[ThemeFree] = context
  /\ ThemeBoth \in DOMAIN cache
  /\ cache[ThemeBoth] = Preset2

\* C10: get_context on a theme that matches no preset never raises: when the
\* generation request raises, or the reply without its code fences has no
\* {...} span, or the span is no valid JSON, the result is the fallback
\* record, and it is stored in the cache under the theme.
HasBraceSpan(r) ==
  \E i \in 1..Len(r) : \E j \in (i + 1)..Len(r) : r[i] = "{" /\ r[j] = "}"

C10_FallbackOnFailure ==
  (requests = 2 /\ (\/ reply = Raised
                    \/ ~HasBraceSpan(reply)
                    \/ json_loads(json_span(strip_fences(reply))) = NoContext))
    => (context = FallbackContext /\ theme \in DOMAIN cache /\ cache[theme] = FallbackContext)

\* a reply with braces in the wrong order: no span
C10_Witness ==
  /\ requests = 2
  /\ reply = <<"}", "x", "{">>
  /\ context = FallbackContext
  /\ cache[theme] = FallbackContext

\* C20: get_context issues an LLM request only when the theme is not in the
\* cache and no key of the preset table is a substring of the theme; when
\* some preset key is a substring of an uncached theme, the preset of the
\* first such key of the table is returned unchanged and stored in the cache
\* under the theme, and no LLM request is made.
MatchingKeys(t) == {i \in 1..Len(themes_presets) : Contains(t, themes_presets[i].key)}

C20_RequestOnlyWithoutPreset ==
  [][LET matching == MatchingKeys(theme')
         first == CHOOSE i \in matching : \A k \in matching : i <= k
     IN /\ requests' > 0 => (theme' \notin DOMAIN cache /\ matching = {})
        /\ (theme' \notin DOMAIN cache /\ matching # {}) =>
             /\ context' = themes_presets[first].preset
             /\ theme' \in DOMAIN cache'
             /\ cache'[theme'] = themes_presets[first].preset
             /\ requests' = 0
             /\ reply' = NoReply]_vars

\* a theme holding both keys, the table listing the second key first
C20_Witness ==
  /\ theme = ThemeBoth
  /\ Len(themes_presets) = 2
  /\ themes_presets[1].key = KEY2
  /\ context = Preset2
  /\ requests = 0
  /\ DOMAIN cache = {ThemeBoth}
  /\ cache[ThemeBoth] = Preset2

(***************************************************************************)
(* DynamicPromptGenerator.generate_critic_context                          *)
(* (src/dynamic_dialogue_system.py): one generation request, no preset     *)
(* table; the fallback depends on the theme.                               *)
(***************************************************************************)
MarsFallback == <<"{", "fallback mars", "}">>
KonbiniFallback == <<"{", "fallback konbini", "}">>

\* DynamicPromptGenerator._get_fallback_context
dynamic_fallback_context(t) ==
  IF Contains(t, <<"ka", "sei">>) THEN MarsFallback
  ELSE IF Contains(t, <<"ko", "n", "bi", "ni">>) THEN KonbiniFallback
  ELSE FallbackContext

\* the parsed result of a reply, NoContext when there is no span or
\* json.loads raises
parsed_reply(r) ==
  IF json_span(strip_fences(r)) = NoContext THEN NoContext
  ELSE json_loads(json_span(strip_fences(r)))

InitDynamic ==
  /\ themes_presets = <<>>
  /\ cache = EmptyCache
  /\ theme = <<>>
  /\ context = NoContext
  /\ requests = 0
  /\ reply = NoReply
  /\ FreshDirector /\ IdleRun /\ IdleClassify /\ IdleTools

\* generate_critic_context(t) answered from the cache
DynamicCached ==
  \E t \in Themes :
    /\ t \in DOMAIN cache
    /\ theme' = t
    /\ context' = cache[t]
    /\ requests' = 0
    /\ reply' = NoReply
    /\ UNCHANGED <<themes_presets, cache, vars_director, vars_run, vars_classify, vars_tools>>

\* the reply parses: the result is stored and returned
DynamicGenerated ==
  \E t \in Themes :
    /\ t \notin DOMAIN cache
    /\ theme' = t
    /\ requests' = 1
    /\ \E r \in Replies :
         /\ parsed_reply(r) # NoContext
         /\ reply' = r
         /\ context' = parsed_reply(r)
         /\ cache' = cache_put(t, parsed_reply(r))
    /\ UNCHANGED <<themes_presets, vars_director, vars_run, vars_classify, vars_tools>>

\* the request raises, or the reply has no span, or json.loads raises: the
\* fallback is returned and self.cache is not written
DynamicFallback ==
  \E t \in Themes :
    /\ t \notin DOMAIN cache
    /\ theme' = t
    /\ requests' = 1
    /\ \E r \in Replies \cup {Raised} :
         /\ r = Raised \/ parsed_reply(r) = NoContext
         /\ reply' = r
    /\ context' = dynamic_fallback_context(t)
    /\ UNCHANGED <<cache, themes_presets, vars_director, vars_run, vars_classify, vars_tools>>

NextDynamic == DynamicCached \/ DynamicGenerated \/ DynamicFallback
SpecDynamic == InitDynamic /\ [][NextDynamic]_vars

\* C9: generate_critic_context caches whatever it returns: after any call for
\* a theme has returned, from a generation or from the fallback, the theme is
\* a key of the cache (so that a later call issues no LLM request).
C9_AlwaysCached == theme # <<>> => theme \in DOMAIN cache


(***************************************************************************)
(* DialogueSystem.get_critic_response on its own: what it returns for a    *)
(* reply content, over the contents made of at most MaxPieces of the       *)
(* pieces below ("x" is a character that is no delimiter).                 *)
(***************************************************************************)
Run12 == [i \in 1..12 |-> "x"]
Run9 == [i \in 1..9 |-> "x"]
CommaAt12 == [i \in 1..12 |-> IF i = 12 THEN "," ELSE "x"]
CriticClampPieces ==
  {Run12, Run9, CommaAt12, <<"x">>, <<".">>, <<"?">>, <<"!">>, <<",">>, <<"lq">>}
CriticContents == {Flatten(ps) : ps \in SeqUpTo(CriticClampPieces, MaxPieces)}

InitCriticClamp ==
  /\ raw_content \in CriticContents
  /\ speaker = "critic"
  /\ cleaner = "none" /\ cleaned = Unset /\ cleaned_again = Unset /\ answer = Unset
  /\ FreshDirector /\ IdleRun /\ IdleClassify /\ IdleContext /\ IdleMain
  /\ IdleComponents

\* text = clean_response(content, "critic"); the length limit; return text
GetCriticResponse ==
  /\ answer = Unset
  /\ cleaner' = "dialogue_system"
  /\ cleaned' = clean_response(raw_content, "critic")
  /\ answer' = critic_clamp(clean_response(raw_content, "critic"))
  /\ UNCHANGED <<raw_content, speaker, cleaned_again,
                 vars_director, vars_run, vars_classify, vars_context, vars_main, vars_components>>

NextCriticClamp == GetCriticResponse
SpecCriticClamp == InitCriticClamp /\ [][NextCriticClamp]_vars

\* C12: the critic text get_critic_response returns never exceeds the
\* ceiling of 20 characters, whatever punctuation the cleaned reply contains
\* and wherever it occurs.
C12_WithinCeiling == answer # Unset => Len(answer) <= 20

\* C13: the critic clamp returns a cleaned reply of length <= 20 unchanged;
\* cuts a longer reply that contains one of the delimiters . ? ! , (the
\* full-width ones) after the first occurrence of the first delimiter, in
\* that order of preference, that occurs in it; and cuts a longer reply with
\* none of them to exactly its first 20 characters.
FirstIndex(t, d) == CHOOSE i \in 1..Len(t) : t[i] = d /\ \A k \in 1..(i - 1) : t[k] # d
Occurs(t, d) == \E i \in 1..Len(t) : t[i] = d

NarratorClampPieces ==
  {<<"a", ".">>, <<"b", "!">>, <<"c", "?", "d", ".">>, <<"d">>, <<" ", ".">>, <<".">>,
   <<" ">>}
NarratorContents == {Flatten(ps) : ps \in SeqUpTo(NarratorClampPieces, MaxPieces)}

InitNarratorClamp ==
  /\ raw_content \in NarratorContents
  /\ speaker = "narrator"
  /\ cleaner = "none" /\ cleaned = Unset /\ cleaned_again = Unset /\ answer = Unset
  /\ FreshDirector /\ IdleRun /\ IdleClassify /\ IdleContext /\ IdleMain
  /\ IdleComponents

\* text = clean_response(content, "narrator"); the 2-sentence limit; return text
GetNarratorResponse ==
  /\ answer = Unset
  /\ cleaner' = "dialogue_system"
  /\ cleaned' = clean_response(raw_content, "narrator")
  /\ answer' = narrator_clamp(clean_response(raw_content, "narrator"))
  /\ UNCHANGED <<raw_content, speaker, cleaned_again,
                 vars_director, vars_run, vars_classify, vars_context, vars_main, vars_components>>

NextNarratorClamp == GetNarratorResponse
SpecNarratorClamp == InitNarratorClamp /\ [][NextNarratorClamp]_vars

\* C14: splitting the text get_narrator_response returns on the three
\* sentence delimiters and dropping the empty fragments yields at most 2
\* fragments; a cleaned text with more than 2 non-empty fragments gives its
\* first two fragments, each followed by a period, and a cleaned text with 2
\* or fewer is returned unchanged.
Fragments(t) == split_on(t, {".", "!", "?"})
NonEmpty(fs) == SelectSeq(fs, LAMBDA f : f # <<>>)
NonBlank(fs) == SelectSeq(fs, LAMBDA f : \E i \in 1..Len(f) : f[i] # " ")

\* as stated: the fragments dropped are the empty ones
C14_TwoNonEmptyFragments ==
  answer # Unset =>
    LET fs == NonEmpty(Fragments(cleaned))
    IN /\ Len(NonEmpty(Fragments(answer))) <= 2
       /\ Len(fs) > 2 => answer = fs[1] \o <<".">> \o fs[2] \o <<".">>
       /\ Len(fs) <= 2 => answer = cleaned

\* as amended: the fragments dropped are the empty and the white-space-only ones
C14_TwoNonBlankFragments ==
  answer # Unset =>
    LET fs == NonBlank(Fragments(cleaned))
    IN /\ Len(NonBlank(Fragments(answer))) <= 2
       /\ Len(fs) > 2 => answer = fs[1] \o <<".">> \o fs[2] \o <<".">>
       /\ Len(fs) <= 2 => answer = cleaned

\* four sentences a. b! c? d. give a. b.
C14_Witness ==
  /\ answer = <<"a", ".", "b", ".">>
  /\ cleaned = <<"a", ".", "b", "!", "c", "?", "d", ".">>


(***************************************************************************)
(* clean_response called twice (src/src/dialogue_system.py and             *)
(* src/src/utils.py), over the texts made of at most MaxPieces of the      *)
(* pieces below.                                                           *)
(***************************************************************************)
CleanPieces ==
  {HAI, EETO, <<"[">>, <<"]">>, <<"nl">>, <<" ">>, <<"x">>, <<"lq">>,
   <<"shou", "chi">>, <<"shi", "ma", "shi", "ta">>}
CleanTexts == {Flatten(ps) : ps \in SeqUpTo(CleanPieces, MaxPieces)}

InitClean ==
  /\ raw_content \in CleanTexts
  /\ speaker \in {"narrator", "critic"}
  /\ cleaner = "none" /\ cleaned = Unset /\ cleaned_again = Unset /\ answer = Unset
  /\ FreshDirector /\ IdleRun /\ IdleClassify /\ IdleContext /\ IdleMain
  /\ IdleComponents

\* dialogue_system.clean_response(text, role)
Clean ==
  /\ cleaner = "none"
  /\ cleaner' = "dialogue_system"
  /\ cleaned' = clean_response(raw_content, speaker)
  /\ UNCHANGED <<raw_content, speaker, cleaned_again, answer,
                 vars_director, vars_run, vars_classify, vars_context, vars_main, vars_components>>

\* utils.clean_response(text, role)
UtilsClean ==
  /\ cleaner = "none"
  /\ cleaner' = "utils"
  /\ cleaned' = utils_clean_response(raw_content, speaker)
  /\ UNCHANGED <<raw_content, speaker, cleaned_again, answer,
                 vars_director, vars_run, vars_classify, vars_context, vars_main, vars_components>>

\* the same function on its own output
CleanAgain ==
  /\ cleaner # "none"
  /\ cleaned_again = Unset
  /\ cleaned_again' = IF cleaner = "utils" THEN utils_clean_response(cleaned, speaker)
                      ELSE clean_response(cleaned, speaker)
  /\ UNCHANGED <<raw_content, speaker, cleaner, cleaned, answer,
                 vars_director, vars_run, vars_classify, vars_context, vars_main, vars_components>>

NextClean == Clean \/ UtilsClean \/ CleanAgain
SpecClean == InitClean /\ [][NextClean]_vars

\* C15: for every text and both roles, clean_response applied to the output
\* of clean_response returns that output unchanged.
C15_CleanIdempotent == cleaned_again # Unset => cleaned_again = cleaned


(***************************************************************************)
(* EnhancedLLMSystem.run_dialogue (src/simple.py) on a freshly constructed *)
(* system.  It has the fields and locals of the run above (turn, dialogue, *)
(* narrator_text, critic_text); instruction holds the situation the        *)
(* director returned for the turn.  Each ollama.chat call returns a reply, *)
(* returns something that is no reply, or raises; get_narrator_response    *)
(* and get_critic_response catch what it raises.  "dot" is the ASCII full  *)
(* stop, "(" ")" "[[" "]]" the full-width parentheses and lenticular       *)
(* brackets.                                                               *)
(***************************************************************************)
Placeholder == <<"dot", "dot", "dot">>
Malformed == <<"malformed">>
NARUHODO == <<"na", "ru", "ho", "do">>

simple_meta_phrases ==
  << <<"shou", "chi", "shi", "ma", "shi", "ta">>,
     <<"ri_", "kai", "shi", "ma", "shi", "ta">>,
     <<"wa", "ka", "ri", "ma", "shi", "ta">>,
     HAI,
     <<"tashi", "ka", "ni">>,
     NARUHODO,
     <<"[[">>, <<"]]">>, <<"(">>, <<")">> >>

\* EnhancedLLMSystem.clean_response
simple_clean_response(t) == normalize_whitespace(remove_phrases(t, simple_meta_phrases))

\* the length limit of EnhancedLLMSystem.get_critic_response
simple_critic_clamp(t) ==
  IF Len(t) > 30
  THEN IF Contains(t, <<"?">>) THEN split_on(t, {"?"})[1] \o <<"?">>
       ELSE IF Contains(t, <<".">>) THEN split_on(t, {"."})[1] \o <<".">>
       ELSE SubSeq(t, 1, 25)
  ELSE t

\* what the two response functions return for the outcome of the chat call
simple_narrator_response(r) ==
  IF r \in {Raised, Malformed} THEN Placeholder ELSE simple_clean_response(r)
simple_critic_response(r) ==
  IF r \in {Raised, Malformed} THEN Placeholder
  ELSE simple_critic_clamp(simple_clean_response(r))

SimpleNarratorOutcomes == {FixedNarration, NARUHODO, Raised, Malformed}
SimpleCriticOutcomes == {BackchannelText, QuestionText, Placeholder, Raised, Malformed}

\* ActiveDirector.analyze_situation
determine_turn_type(t) ==
  IF t < 2 THEN "establishing" ELSE IF t < 5 THEN "developing"
  ELSE IF t < 7 THEN "complicating" ELSE "resolving"

determine_focus(t) ==
  LET focus_progression == <<"setting", "character", "mystery", "discovery",
                             "conflict", "revelation", "resolution">>
      index == IF t \div 2 < 6 THEN t \div 2 ELSE 6
  IN focus_progression[index + 1]

analyze_situation(t, d) ==
  LET last_length == Len(d[Len(d)].content)
  IN [style |-> IF d = <<>> THEN "opening"
                ELSE IF last_length < 30 THEN "detailed"
                ELSE IF last_length > 120 THEN "brief" ELSE "moderate",
      turn_type |-> determine_turn_type(t),
      focus |-> determine_focus(t),
      turn |-> t]

simple_entry(r, c, t, situation) ==
  [role |-> r, content |-> c, turn |-> t, instruction_summary |-> situation]

\* if narrator_text and narrator_text != "..."
worth_appending(t) == t # <<>> /\ t # Placeholder

InitSimple ==
  /\ max_turns \in 1..MaxTurns
  /\ turn = 0
  /\ pc = "start"
  /\ dialogue = <<>>
  /\ narrator_text = <<>>
  /\ critic_text = <<>>
  /\ instruction = NoInstruction
  /\ narrator_prompt = "none"
  /\ turn_start = 0
  /\ analysis = NoAnalysis
  /\ FreshDirector /\ IdleClassify /\ IdleContext /\ IdleTools

\* for turn in range(max_turns): self.turn = turn; situation = analyze_situation(...)
SimpleSituation ==
  /\ pc \in {"start", "loop"}
  /\ next_turn < max_turns
  /\ turn' = next_turn
  /\ instruction' = analyze_situation(next_turn, dialogue)
  /\ turn_start' = Len(dialogue)
  /\ pc' = "narrator"
  /\ UNCHANGED <<vars_director, max_turns, dialogue, narrator_text, critic_text,
                 narrator_prompt, analysis, vars_classify, vars_context, vars_tools>>

\* turn > 0 and self.dialogue[-1] on an empty transcript: IndexError, which
\* nothing in run_dialogue catches
SimpleIndexError ==
  /\ pc = "narrator"
  /\ turn > 0 /\ dialogue = <<>>
  /\ pc' = "raised"
  /\ UNCHANGED <<vars_director, max_turns, turn, dialogue, narrator_text, critic_text,
                 instruction, narrator_prompt, turn_start, analysis,
                 vars_classify, vars_context, vars_tools>>

\* the narrator's turn
SimpleNarrator ==
  /\ pc = "narrator"
  /\ turn = 0 \/ (dialogue # <<>> /\ dialogue[Len(dialogue)].role = "critic")
  /\ \E r \in SimpleNarratorOutcomes :
       /\ narrator_text' = simple_narrator_response(r)
       /\ dialogue' = IF worth_appending(simple_narrator_response(r))
                      THEN Append(dialogue, simple_entry("narrator",
                                    simple_narrator_response(r), turn, instruction))
                      ELSE dialogue
  /\ pc' = "critic"
  /\ UNCHANGED <<vars_director, max_turns, turn, critic_text, instruction,
                 narrator_prompt, turn_start, analysis,
                 vars_classify, vars_context, vars_tools>>

SimpleNarratorSkipped ==
  /\ pc = "narrator"
  /\ turn > 0 /\ dialogue # <<>> /\ dialogue[Len(dialogue)].role # "critic"
  /\ pc' = "critic"
  /\ UNCHANGED <<vars_director, max_turns, turn, dialogue, narrator_text, critic_text,
                 instruction, narrator_prompt, turn_start, analysis,
                 vars_classify, vars_context, vars_tools>>

\* the critic's turn
simple_critic_due ==
  turn < max_turns - 1 /\ dialogue # <<>> /\ dialogue[Len(dialogue)].role = "narrator"

SimpleCritic ==
  /\ pc = "critic"
  /\ simple_critic_due
  /\ \E r \in SimpleCriticOutcomes :
       /\ critic_text' = simple_critic_response(r)
       /\ dialogue' = IF worth_appending(simple_critic_response(r))
                      THEN Append(dialogue, simple_entry("critic",
                                    simple_critic_response(r), turn, instruction))
                      ELSE dialogue
  /\ pc' = "loop"
  /\ UNCHANGED <<vars_director, max_turns, turn, narrator_text, instruction,
                 narrator_prompt, turn_start, analysis,
                 vars_classify, vars_context, vars_tools>>

SimpleCriticSkipped ==
  /\ pc = "critic"
  /\ ~simple_critic_due
  /\ pc' = "loop"
  /\ UNCHANGED <<vars_director, max_turns, turn, dialogue, narrator_text, critic_text,
                 instruction, narrator_prompt, turn_start, analysis,
                 vars_classify, vars_context, vars_tools>>

\* return self.dialogue
SimpleReturn ==
  /\ pc \in {"start", "loop"}
  /\ next_turn >= max_turns
  /\ pc' = "done"
  /\ UNCHANGED <<vars_director, max_turns, turn, dialogue, narrator_text, critic_text,
                 instruction, narrator_prompt, turn_start, analysis,
                 vars_classify, vars_context, vars_tools>>

NextSimple ==
  \/ SimpleSituation \/ SimpleIndexError
  \/ SimpleNarrator \/ SimpleNarratorSkipped
  \/ SimpleCritic \/ SimpleCriticSkipped
  \/ SimpleReturn
SpecSimple == InitSimple /\ [][NextSimple]_vars

\* C16: EnhancedLLMSystem.run_dialogue survives every pattern of LLM call
\* failures, the first narrator call at turn 0 included: it never raises, and
\* it returns only after the iteration of turn max_turns - 1.
C16_SurvivesFailures ==
  /\ pc # "raised"
  /\ pc = "done" => turn = max_turns - 1


(***************************************************************************)
(* main (src/src/main.py): check_models, select_theme, then the run above  *)
(* with max_turns = 8, analyze_dialogue and save_dialogue.  A model name   *)
(* is a text; the listing is the set of names ollama.list() returns.       *)
(***************************************************************************)
GEMMA3_4B == <<"gemma3", ":", "4b">>
GEMMA3_12B == <<"gemma3", ":", "12b">>
ModelNames == {GEMMA3_4B \o <<"-", "it">>, GEMMA3_12B}

\* has_4b = any("gemma3:4b" in m for m in available_models)
has_4b_or_12b(ms) == \E m \in ms : Contains(m, GEMMA3_4B) \/ Contains(m, GEMMA3_12B)

has_4b(ms) == \E m \in ms : Contains(m, GEMMA3_4B)

has_12b(ms) == \E m \in ms : Contains(m, GEMMA3_12B)

\* select_theme: the list offered, what can be typed at the first prompt,
\* and the theme for a choice and the text typed at the second prompt
CustomLabel == <<"custom">>
ThemeList == <<ThemeBoth, ThemeFree>>
Choices == {"1", "3", "abc"}

\* int(choice) - 1 for a choice that is a number
index_of(choice) == IF choice = "1" THEN 0 ELSE IF choice = "2" THEN 1 ELSE 2

theme_for_choice(choice, typed) ==
  LET themes == Append(ThemeList, CustomLabel)
      n == Len(themes)
      idx == index_of(choice)
  IN IF choice \notin {"1", "2", "3"} THEN themes[1]
     ELSE IF idx = n - 1 THEN (IF typed = <<>> THEN themes[1] ELSE typed)
     ELSE themes[idx + 1]

\* the context the constructor gets from get_context
context_for(t) == IF first_preset(<<[key |-> KEY1, preset |-> Preset1]>>, t) # NoContext
                  THEN Preset1 ELSE FallbackContext

InitMain ==
  /\ main_pc = "start" /\ connected = "unknown" /\ available_models = NoListing
  /\ config_rewritten = FALSE /\ theme_prompts = 0 /\ selected_theme = <<>>
  /\ system = "none" /\ document = NoDocument /\ exit_status = NotReturned
  /\ FreshDirector /\ IdleRun /\ IdleClassify /\ IdleContext /\ IdleText
  /\ IdleComponents

\* check_models: check_ollama() returns False; main returns 1
ProbeFails ==
  /\ main_pc = "start"
  /\ connected' = "no"
  /\ exit_status' = 1
  /\ main_pc' = "returned"
  /\ UNCHANGED <<available_models, config_rewritten, theme_prompts, selected_theme,
                 system, document,
                 vars_director, vars_run, vars_classify, vars_context, vars_text, vars_components>>

ProbeSucceeds ==
  /\ main_pc = "start"
  /\ connected' = "yes"
  /\ main_pc' = "list"
  /\ UNCHANGED <<available_models, config_rewritten, theme_prompts, selected_theme,
                 system, document, exit_status,
                 vars_director, vars_run, vars_classify, vars_context, vars_text, vars_components>>

\* check_models: ollama.list() raises; the except clause returns False
ListRaises ==
  /\ main_pc = "list"
  /\ exit_status' = 1
  /\ main_pc' = "returned"
  /\ UNCHANGED <<connected, available_models, config_rewritten, theme_prompts,
                 selected_theme, system, document,
                 vars_director, vars_run, vars_classify, vars_context, vars_text, vars_components>>

\* check_models: gemma3:4b is not in the listing; main returns 1
ModelMissing ==
  /\ main_pc = "list"
  /\ \E ms \in SUBSET ModelNames :
       /\ ~has_4b(ms)
       /\ available_models' = ms
  /\ exit_status' = 1
  /\ main_pc' = "returned"
  /\ UNCHANGED <<connected, config_rewritten, theme_prompts, selected_theme,
                 system, document,
                 vars_director, vars_run, vars_classify, vars_context, vars_text, vars_components>>

\* check_models returns True; without gemma3:12b config.json is rewritten,
\* unless reading or writing it fails
ModelsFound ==
  /\ main_pc = "list"
  /\ \E ms \in SUBSET ModelNames :
       /\ has_4b(ms)
       /\ available_models' = ms
       /\ \E written \in BOOLEAN : config_rewritten' = (~has_12b(ms) /\ written)
  /\ main_pc' = "select"
  /\ UNCHANGED <<connected, theme_prompts, selected_theme, system, document, exit_status,
                 vars_director, vars_run, vars_classify, vars_context, vars_text, vars_components>>

\* select_theme: a choice is typed, and a theme when the choice is the last
\* entry; a choice that is no number selects the first theme
SelectTheme ==
  /\ main_pc = "select"
  /\ \E choice \in Choices, typed \in {<<>>, ThemeFree} :
       /\ selected_theme' = theme_for_choice(choice, typed)
       /\ theme_prompts' = IF choice = "3" THEN 2 ELSE 1
  /\ main_pc' = "construct"
  /\ UNCHANGED <<connected, available_models, config_rewritten, system, document,
                 exit_status,
                 vars_director, vars_run, vars_classify, vars_context, vars_text, vars_components>>

\* system = DialogueSystem(selected_theme, "config.json"), then
\* system.run_dialogue(max_turns=8) begins
Construct ==
  /\ main_pc = "construct"
  /\ system' = "constructed"
  /\ theme' = selected_theme
  /\ context' = context_for(selected_theme)
  /\ max_turns' = 8
  /\ pc' = "start"
  /\ main_pc' = "run"
  /\ UNCHANGED <<connected, available_models, config_rewritten, theme_prompts,
                 selected_theme, document, exit_status,
                 vars_director, turn, dialogue, narrator_text, critic_text, instruction,
                 narrator_prompt, turn_start, analysis,
                 themes_presets, cache, requests, reply, vars_classify, vars_text,
                 vars_components>>

\* the constructor raises (config.json is missing or is not what it expects)
ConstructRaises ==
  /\ main_pc = "construct"
  /\ exit_status' = 1
  /\ main_pc' = "returned"
  /\ UNCHANGED <<connected, available_models, config_rewritten, theme_prompts,
                 selected_theme, system, document,
                 vars_director, vars_run, vars_classify, vars_context, vars_text, vars_components>>

\* run_dialogue raised: the except clause of main returns 1
RunRaised ==
  /\ main_pc = "run"
  /\ pc = "raised"
  /\ exit_status' = 1
  /\ main_pc' = "returned"
  /\ UNCHANGED <<connected, available_models, config_rewritten, theme_prompts,
                 selected_theme, system, document,
                 vars_director, vars_run, vars_classify, vars_context, vars_text, vars_components>>

\* save_dialogue(dialogue, selected_theme, analysis): the document written
save_data(d, t, a) ==
  [theme |-> t, dialogue |-> d, analysis |-> a, timestamp |-> "timestamp"]

\* filename = save_dialogue(...); return 0
Save ==
  /\ main_pc = "run"
  /\ pc = "analyzed"
  /\ document' = save_data(dialogue, selected_theme, analysis)
  /\ exit_status' = 0
  /\ main_pc' = "returned"
  /\ UNCHANGED <<connected, available_models, config_rewritten, theme_prompts,
                 selected_theme, system,
                 vars_director, vars_run, vars_classify, vars_context, vars_text, vars_components>>

\* save_dialogue raises (the file cannot be written)
SaveRaises ==
  /\ main_pc = "run"
  /\ pc = "analyzed"
  /\ exit_status' = 1
  /\ main_pc' = "returned"
  /\ UNCHANGED <<connected, available_models, config_rewritten, theme_prompts,
                 selected_theme, system, document,
                 vars_director, vars_run, vars_classify, vars_context, vars_text, vars_components>>

NextMain ==
  \/ ProbeFails \/ ProbeSucceeds
  \/ ListRaises \/ ModelMissing \/ ModelsFound
  \/ SelectTheme
  \/ Construct \/ ConstructRaises
  \/ Next
  \/ RunRaised
  \/ Save \/ SaveRaises
SpecMain == InitMain /\ [][NextMain]_vars

\* C17: startup failures are fatal and precede any dialogue: when the
\* connectivity probe fails or gemma3:4b is absent from the listing, main
\* returns 1 and has neither asked for a theme, nor constructed a
\* DialogueSystem, nor issued a narrator or critic request; main returns 0
\* only after a dialogue has run to completion and been saved.
StartupFailed ==
  \/ connected = "no"
  \/ (available_models # NoListing
       /\ \A m \in available_models : ~Contains(m, <<"gemma3", ":", "4b">>))

C17_StartupFatal ==
  /\ StartupFailed =>
       /\ main_pc = "returned" /\ exit_status = 1
       /\ theme_prompts = 0 /\ selected_theme = <<>>
       /\ system = "none"
       /\ pc = "idle" /\ dialogue = <<>> /\ narrator_prompt = "none"
  /\ exit_status = 0 =>
       /\ pc = "analyzed" /\ turn = max_turns - 1 /\ max_turns = 8
       /\ document # NoDocument /\ document.dialogue = dialogue

\* the probe succeeded and the listing has gemma3:12b only
C17_Witness ==
  /\ connected = "yes"
  /\ available_models = {GEMMA3_12B}
  /\ exit_status = 1
  /\ main_pc = "returned"

\* C19: the document save_dialogue writes for a run has exactly the
\* top-level keys theme, context, dialogue, analysis and timestamp, where
\* context is the Context record the run used.
C19_DocumentKeys ==
  document # NoDocument =>
    /\ DOMAIN document = {"theme", "context", "dialogue", "analysis", "timestamp"}
    /\ document.context = context


(***************************************************************************)
(* SmartDirector of src/src/components.py, which adds question_count and a *)
(* rule on it, and either SmartDirector called on its own: a fresh         *)
(* director of one of the two modules whose get_instruction is called with *)
(* any turn and any critic text.                                           *)
(***************************************************************************)
NAIQ == <<"na", "i", "?">>
JANAIQ == <<"ja", "na", "i", "?">>
CHIGAWANAIQ == <<"chiga", "wa", "na", "i", "?">>
EXCLAMATION == <<"!">>
OO == <<"o", "o">>
SUGOI == <<"su", "go", "i">>

components_analyze_critic_response(t) ==
  IF Contains(t, NAIQ) \/ Contains(t, JANAIQ) \/ Contains(t, CHIGAWANAIQ) THEN "contradiction"
  ELSE IF Contains(t, QMARK) THEN "question"
  ELSE IF Len(t) <= 5 THEN "backchannel"
  ELSE IF Contains(t, EXCLAMATION) \/ Contains(t, OO) \/ Contains(t, SUGOI) THEN "exclamation"
  ELSE "comment"

\* the fields after the recording step of get_instruction(t, last_critic);
\* analyze_critic_response counts the questions
components_patterns(t, last_critic) ==
  IF last_critic # <<>>
  THEN Append(critic_patterns, components_analyze_critic_response(last_critic))
  ELSE critic_patterns

components_count(t, last_critic) ==
  IF last_critic # <<>> /\ components_analyze_critic_response(last_critic) = "contradiction"
  THEN contradiction_count + 1 ELSE contradiction_count

components_last_turn(t, last_critic) ==
  IF last_critic # <<>> /\ components_analyze_critic_response(last_critic) = "contradiction"
  THEN t ELSE last_contradiction_turn

components_questions(t, last_critic) ==
  IF last_critic # <<>> /\ components_analyze_critic_response(last_critic) = "question"
  THEN question_count + 1 ELSE question_count

\* the turn-keyed ladder at the end of get_instruction
components_basic_strategy(t, momentum) ==
  IF t = 0 THEN [to |-> "critic", action |-> "listen", note |-> "mazu kiku"]
  ELSE IF t < 3 THEN [to |-> "critic",
                      action |-> IF t % 2 = 1 THEN "listen" ELSE "question",
                      note |-> "kyoumi wo shimesu"]
  ELSE IF t < 5 THEN [to |-> "critic",
                      action |-> IF t % 2 = 0 THEN "question" ELSE "analyze",
                      note |-> "horisageru"]
  ELSE IF t < 7 THEN
    IF momentum < 3 THEN [to |-> "narrator", action |-> "develop", note |-> "monogatari wo fukameru"]
    ELSE [to |-> "critic", action |-> "analyze", note |-> "shousai ni bunseki"]
  ELSE
    IF t = 7 THEN [to |-> "narrator", action |-> "climax", note |-> "climax"]
    ELSE [to |-> "critic", action |-> "final_doubt", note |-> "shime no kansou"]

\* whether the call ends in the rule on question_count, which resets it
question_rule_fires(t, ps, count, last_turn, questions) ==
  /\ ~SamePatternThrice(ps)
  /\ ~too_many_contradictions(t, count, last_turn)
  /\ questions > 2

components_choose_instruction(t, ps, count, last_turn, questions, momentum) ==
  IF SamePatternThrice(ps)
  THEN [to |-> "critic", action |-> "change_pattern", note |-> "pattern wo kaeru"]
  ELSE IF too_many_contradictions(t, count, last_turn)
  THEN [to |-> "narrator", action |-> "breakthrough", note |-> "shintenkai de toppa"]
  ELSE IF questions > 2
  THEN [to |-> "narrator", action |-> "develop", note |-> "shousai ni tenkai"]
  ELSE components_basic_strategy(t, momentum)

components_get_instruction(t, last_critic) ==
  LET ps == components_patterns(t, last_critic)
      count == components_count(t, last_critic)
      last_turn == components_last_turn(t, last_critic)
      questions == components_questions(t, last_critic)
  IN /\ critic_patterns' = ps
     /\ contradiction_count' = count
     /\ last_contradiction_turn' = last_turn
     /\ question_count' = IF question_rule_fires(t, ps, count, last_turn, questions)
                          THEN 0 ELSE questions
     /\ instruction' = components_choose_instruction(t, ps, count, last_turn, questions,
                                                      story_momentum)

ComponentsTexts == {EmptyText, BackchannelText, QuestionText, <<"mi", "zu">> \o NAIQ}

InitDirectors ==
  /\ variant \in {"dialogue_system", "components"}
  /\ question_count = 0
  /\ FreshDirector
  /\ IdleRun /\ IdleClassify /\ IdleContext /\ IdleText /\ IdleMain

DialogueSystemCall ==
  /\ variant = "dialogue_system"
  /\ DirectorCall

ComponentsCall ==
  /\ variant = "components"
  /\ \E t \in 0..MaxDirectorTurn, c \in ComponentsTexts :
       /\ c # <<>> => Len(critic_patterns) < MaxHistory
       /\ components_get_instruction(t, c)
       /\ turn' = t
       /\ critic_text' = c
  /\ UNCHANGED <<story_momentum, max_turns, pc, dialogue, narrator_text,
                 narrator_prompt, turn_start, analysis, vars_classify, vars_context,
                 vars_text, vars_main, variant>>

NextDirectors == DialogueSystemCall \/ ComponentsCall \/ MomentumBump
SpecDirectors == InitDirectors /\ [][NextDirectors]_vars

\* C18: the default-ladder path is pure and deterministic: a call
\* get_instruction(t) with an empty last_critic, from any director state and
\* for any t, leaves contradiction_count, last_contradiction_turn,
\* story_momentum and the pattern history unchanged, and the instruction it
\* returns is the one the same call returns from that same state.
InstructionFrom(t, ps, count, last_turn, questions, momentum) ==
  IF variant = "components"
  THEN components_choose_instruction(t, ps, count, last_turn, questions, momentum)
  ELSE choose_instruction(t, ps, count, last_turn, momentum)

C21_BreakthroughTemplate ==
  (pc = "critic" /\ instruction.to = "narrator" /\ instruction.action = "breakthrough")
    => narrator_prompt = "breakthrough"

\* C22: in a run on a fresh system with max_turns >= 7 the climax precedes the
\* final doubt: when the Director's default ladder is reached at turn 6 (the
\* first turn >= 6), the instruction issued is narrator/climax.
C22_ClimaxFirst ==
  (max_turns >= 7 /\ turn = 6 /\ pc = "narrator" /\ NeitherRuleFires)
    => (instruction.to = "narrator" /\ instruction.action = "climax")

\* C23: at the end of a run_dialogue run on a fresh system, the contradiction
\* count reported by analyze_dialogue equals the number of critic entries of
\* the transcript whose pattern is contradiction: analysis.contradiction_count
\* equals analysis.patterns["contradiction"] (0 when absent).
C23_CountMatchesPatterns ==
  pc = "analyzed" =>
    analysis.contradiction_count =
      (IF "contradiction" \in DOMAIN analysis.patterns
       THEN analysis.patterns["contradiction"] ELSE 0)

\* the patterns of the critic entries of the transcript, in order (an empty
\* critic text is never passed on to the Director: left out)
SpokenPatterns ==
  LET spoken == SelectSeq(dialogue, LAMBDA e : e.role = "critic" /\ e.content # <<>>)
  IN [i \in 1..Len(spoken) |-> spoken[i].pattern]

\* C24: each critic utterance is recorded in the Director's pattern history
\* exactly once, on the turn after it was spoken: once the Director has been
\* consulted for a turn, the pattern history equals the sequence of patterns
\* of the critic entries spoken so far, and change_pattern is issued only if
\* the last three critic entries of the transcript carry the same pattern.
C24_RecordedOnce ==
  pc = "narrator" =>
    /\ critic_patterns = SpokenPatterns
    /\ instruction.action = "change_pattern" =>
         /\ Len(SpokenPatterns) >= 3
         /\ SamePatternThrice(SpokenPatterns)

(***************************************************************************)
(* run_dialogue when every ollama.chat call returns.  The loop is          *)
(* sequential code: whenever a step is possible the interpreter takes it,  *)
(* and a call that returns lets the step after it happen (weak fairness of *)
(* the next-state action).                                                 *)
(***************************************************************************)
NextReturning ==
  \/ Direct
  \/ NarratorSpeaks \/ NarratorSkipped
  \/ CriticSpeaks \/ CriticSkipped
  \/ ContinuationSpeaks \/ ContinuationSkipped
  \/ Return
SpecReturning == InitRun /\ [][NextReturning]_vars /\ WF_vars(NextReturning)

\* C25: run_dialogue(max_turns) terminates, provided every LLM call returns:
\* it consults the Director once per turn, for turns 0, 1, ..., max_turns-1 in
\* increasing order (a consultation is the step from the top of the loop to
\* the narrator's part; turn and instruction change at no other step), and it
\* returns exactly when the turn after the current one is not below
\* max_turns, whatever the Director's instructions were.
C25_Terminates ==
  /\ <>(pc = "done")
  /\ [](pc = "done" => turn = max_turns - 1)
  /\ [][/\ (pc \in {"start", "loop"} /\ pc' = "narrator")
             => /\ turn' = (IF pc = "start" THEN 0 ELSE turn + 1)
                /\ turn' < max_turns
        /\ (turn' # turn \/ instruction' # instruction)
             => (pc \in {"start", "loop"} /\ pc' = "narrator")
        /\ pc' = "done"
             => (pc = "loop" /\ turn + 1 = max_turns)]_vars

\* a run of 8 turns has returned after a turn on which the Director asked for
\* a breakthrough and after a change_pattern
C25_Witness ==
  /\ pc = "done" /\ max_turns = 8 /\ turn = 7
  /\ instruction.action = "breakthrough"
  /\ SamePatternThrice(SubSeq(critic_patterns, 1, 3))

\* C26: throughout a run_dialogue run on a fresh system, after each completed
\* append step story_momentum equals the number of narrator entries of the
\* transcript; it never decreases, and it changes only in the steps of
\* run_dialogue that append a narrator entry, never in a get_instruction or
\* analyze_critic_response step.
C26_MomentumCountsNarrations ==
  /\ [](story_momentum = Len(entries_of(dialogue, "narrator")))
  /\ [][/\ story_momentum' >= story_momentum
        /\ story_momentum' # story_momentum
             => /\ pc \in {"narrator", "continue"}
                /\ Len(dialogue') = Len(dialogue) + 1
                /\ dialogue'[Len(dialogue')].role = "narrator"
                /\ UNCHANGED <<contradiction_count, last_contradiction_turn,
                               critic_patterns, instruction>>]_vars

\* a finished run of 8 turns with narrator entries of both kinds (the
\* instructed one and the continuation after the critic)
C26_Witness ==
  /\ pc = "done" /\ max_turns = 8
  /\ story_momentum >= 7
  /\ \E i \in 2..Len(dialogue) :
       dialogue[i].role = "narrator" /\ dialogue[i - 1].role = "narrator"
  /\ \E i \in 2..Len(dialogue) :
       dialogue[i].role = "narrator" /\ dialogue[i - 1].role = "critic"

\* C27: in any run_dialogue run on a fresh system, for every max_turns >= 1,
\* the first transcript entry is a narrator entry, no critic entry is appended
\* during the last iteration (turn = max_turns - 1), and the transcript never
\* contains two adjacent critic entries.
C27_TranscriptShape ==
  /\ Len(dialogue) >= 1 => dialogue[1].role = "narrator"
  /\ \A i \in 1..Len(dialogue) :
       dialogue[i].role = "critic" => dialogue[i].turn < max_turns - 1
  /\ \A i \in 1..(Len(dialogue) - 1) :
       ~(dialogue[i].role = "critic" /\ dialogue[i + 1].role = "critic")

\* a finished run of 8 turns whose last turn targeted the critic, which did
\* not speak, after a critic entry of turn 6 that no narrator entry follows
C27_Witness ==
  /\ pc = "done" /\ max_turns = 8
  /\ instruction.to = "critic"
  /\ dialogue[Len(dialogue)].role = "critic"
  /\ dialogue[Len(dialogue)].turn = 6

(***************************************************************************)
(* Further properties of EnhancedLLMSystem.run_dialogue (src/simple.py).   *)
(***************************************************************************)
\* the two guards of the loop body, as they evaluate on a non-empty or
\* first-turn transcript
SimpleNarratorAsked ==
  turn = 0 \/ (dialogue # <<>> /\ dialogue[Len(dialogue)].role = "critic")

\* at the end of an iteration: the narrator was asked in it and its text was
\* not appended; the critic was asked in it and its text was not appended
SimpleNarratorFailed == pc = "loop" /\ ~worth_appending(narrator_text)
SimpleCriticFailed ==
  /\ pc = "loop" /\ turn < max_turns - 1
  /\ dialogue # <<>> /\ dialogue[Len(dialogue)].role = "narrator"

\* C28: in any single run of EnhancedLLMSystem.run_dialogue the transcript
\* strictly alternates between narrator and critic entries starting with a
\* narrator entry, no entry's content is empty or the placeholder: a failed or
\* empty response is never appended, and the same role is asked again on the
\* next turn (the critic when that turn is not the last one).
C28_AlternatesAndAsksAgain ==
  /\ [](\A i \in 1..Len(dialogue) :
          /\ dialogue[i].role = (IF i % 2 = 1 THEN "narrator" ELSE "critic")
          /\ worth_appending(dialogue[i].content))
  /\ [][(pc = "loop" /\ pc' = "narrator") =>
          /\ SimpleNarratorFailed => SimpleNarratorAsked'
          /\ (SimpleCriticFailed /\ turn' < max_turns - 1)
               => (~SimpleNarratorAsked' /\ simple_critic_due')]_vars

(***************************************************************************)
(* BalancedLLMSystem.run_dialogue (src/final_dialogue.py) on a freshly     *)
(* constructed system.  Its SmartDirector has contradiction_count and      *)
(* last_contradiction_turn (story_stagnation is set to 0 and never used);  *)
(* the loop has the locals and positions of the runs above, an entry holds *)
(* a role and a content, and narrator_prompt is the prompt                 *)
(* get_narrator_response built last.  Nothing catches what ollama.chat     *)
(* raises.                                                                 *)
(***************************************************************************)
HANAI == <<"ha", "na", "i">>

\* if self.contradiction_count > 2
contradictions_persist_past3(count) == count > 3

contradictions_persist(count) == count > 2

\* SmartDirector.get_instruction of final_dialogue.py
balanced_get_instruction(t, count) ==
  IF contradictions_persist(count)
  THEN [to |-> "narrator", action |-> "progress", note |-> "monogatari wo zenshin"]
  ELSE IF t < 3 THEN [to |-> "critic", action |-> "listen", note |-> "mazu kiku"]
  ELSE IF t < 6 THEN
    IF t % 3 = 0
    THEN [to |-> "critic", action |-> "check_carefully", note |-> "shinchou ni check"]
    ELSE [to |-> "critic", action |-> "question", note |-> "shitsumon de fukameru"]
  ELSE
    IF t % 2 = 0 THEN [to |-> "critic", action |-> "doubt", note |-> "gimon wo shimesu"]
    ELSE [to |-> "narrator", action |-> "conclude", note |-> "monogatari wo matomeru"]

\* the prompt get_narrator_response builds
balanced_narrator_template(self_turn, critic, action) ==
  IF critic # <<>> /\ Contains(critic, HANAI) THEN "correct"
  ELSE IF self_turn = 0 THEN "start"
  ELSE IF action = "progress" THEN "progress"
  ELSE IF action = "conclude" THEN "conclude"
  ELSE "continue"

\* str.strip()
RECURSIVE strip(_)
strip(t) ==
  IF t = <<>> THEN <<>>
  ELSE IF Head(t) \in Whitespace THEN strip(Tail(t))
  ELSE IF t[Len(t)] \in Whitespace THEN strip(SubSeq(t, 1, Len(t) - 1))
  ELSE t

balanced_meta_phrases ==
  << <<"tashi", "ka", "ni", "so", "no", "too", "ri", "da", ".">>,
     <<"go", "shi_", "teki", "a", "ri", "ga", "to", "u", "go", "za", "i", "ma", "su", ".">>,
     <<"shuu", "sei", "shi", "ta", "uchi", "you">>,
     <<"shou", "chi", "shi", "ma", "shi", "ta">> >>

\* BalancedLLMSystem.clean_narrator_response
clean_narrator_response(t) ==
  LET t1 == remove_chars(t, {"[", "]", "lq", "rq"})
      t2 == remove_phrases(t1, balanced_meta_phrases)
      t3 == normalize_whitespace(t2)
      sentences == split_on(t3, {"."})
      t4 == IF Len(sentences) > 2
            THEN sentences[1] \o <<".">> \o sentences[2] \o <<".">> ELSE t3
  IN strip(t4)

\* the text get_critic_response returns for a reply
balanced_critic_response(raw) ==
  LET t == strip(raw)
  IN IF Len(t) > 20
     THEN IF Contains(t, <<".">>) THEN split_on(t, {"."})[1] \o <<".">>
          ELSE IF Contains(t, <<"?">>) THEN split_on(t, {"?"})[1] \o <<"?">>
          ELSE SubSeq(t, 1, 20)
     ELSE t

\* if "NAI" in critic_text or "OKASHII" in critic_text
points_out_contradiction(t) == Contains(t, NAI) \/ Contains(t, OKASHII)

\* replies of the backend: a narration with brackets, a meta phrase and three
\* sentences; critic replies with and without the phrases, one of them with
\* the phrase behind the point where the length limit cuts
BalancedNarratorReplies ==
  {<<"[", "shou", "chi", "shi", "ma", "shi", "ta", "x", "y", ".", " ", "y", "x", ".",
     "x", ".", "]">>}
BalancedCriticReplies ==
  {BackchannelText, <<" ">> \o ContradictionText \o <<"nl">>, OKASHII,
   Run12 \o Run9 \o <<"?">> \o NAI}
BalancedNarratorResponses == {clean_narrator_response(raw) : raw \in BalancedNarratorReplies}
BalancedCriticResponses == {balanced_critic_response(raw) : raw \in BalancedCriticReplies}

balanced_entry(r, c) == [role |-> r, content |-> c]

InitBalanced ==
  /\ contradiction_count = 0
  /\ last_contradiction_turn = -1
  /\ story_momentum = 0
  /\ critic_patterns = <<>>
  /\ max_turns \in 1..MaxTurns
  /\ turn = 0
  /\ pc = "start"
  /\ dialogue = <<>>
  /\ narrator_text = <<>>
  /\ critic_text = <<>>
  /\ instruction = NoInstruction
  /\ narrator_prompt = "none"
  /\ turn_start = 0
  /\ analysis = NoAnalysis
  /\ IdleClassify /\ IdleContext /\ IdleTools

\* for turn in range(max_turns): self.turn = turn; instruction = get_instruction(...)
BalancedDirect ==
  /\ pc \in {"start", "loop"}
  /\ next_turn < max_turns
  /\ turn' = next_turn
  /\ instruction' = balanced_get_instruction(next_turn, contradiction_count)
  /\ turn_start' = Len(dialogue)
  /\ pc' = "narrator"
  /\ UNCHANGED <<vars_director, max_turns, dialogue, narrator_text, critic_text,
                 narrator_prompt, analysis, vars_classify, vars_context, vars_tools>>

BalancedNarratorSpeaks ==
  /\ pc = "narrator"
  /\ narrator_turn_due(turn, instruction.to)
  /\ \E returned \in BalancedNarratorResponses :
       /\ narrator_text' = returned
       /\ dialogue' = Append(dialogue, balanced_entry("narrator", returned))
  /\ narrator_prompt' = balanced_narrator_template(turn, critic_text, instruction.action)
  /\ pc' = "critic"
  /\ UNCHANGED <<vars_director, max_turns, turn, critic_text, instruction, turn_start,
                 analysis, vars_classify, vars_context, vars_tools>>

BalancedNarratorRaises ==
  /\ pc = "narrator"
  /\ narrator_turn_due(turn, instruction.to)
  /\ narrator_prompt' = balanced_narrator_template(turn, critic_text, instruction.action)
  /\ pc' = "raised"
  /\ UNCHANGED <<vars_director, max_turns, turn, dialogue, narrator_text, critic_text,
                 instruction, turn_start, analysis, vars_classify, vars_context, vars_tools>>

BalancedNarratorSkipped ==
  /\ pc = "narrator"
  /\ ~narrator_turn_due(turn, instruction.to)
  /\ pc' = "critic"
  /\ UNCHANGED <<vars_director, max_turns, turn, dialogue, narrator_text, critic_text,
                 instruction, narrator_prompt, turn_start, analysis,
                 vars_classify, vars_context, vars_tools>>

\* the critic's turn: the reply is checked for a contradiction and appended
BalancedCriticSpeaks ==
  /\ pc = "critic"
  /\ critic_turn_due(turn, max_turns, instruction.to)
  /\ \E returned \in BalancedCriticResponses :
       /\ critic_text' = returned
       /\ contradiction_count' = IF points_out_contradiction(returned)
                                 THEN contradiction_count + 1 ELSE contradiction_count
       /\ last_contradiction_turn' = IF points_out_contradiction(returned)
                                     THEN turn ELSE last_contradiction_turn
       /\ dialogue' = Append(dialogue, balanced_entry("critic", returned))
  /\ pc' = "continue"
  /\ UNCHANGED <<story_momentum, critic_patterns, max_turns, turn, narrator_text,
                 instruction, narrator_prompt, turn_start, analysis,
                 vars_classify, vars_context, vars_tools>>

BalancedCriticRaises ==
  /\ pc = "critic"
  /\ critic_turn_due(turn, max_turns, instruction.to)
  /\ pc' = "raised"
  /\ UNCHANGED <<vars_director, max_turns, turn, dialogue, narrator_text, critic_text,
                 instruction, narrator_prompt, turn_start, analysis,
                 vars_classify, vars_context, vars_tools>>

BalancedCriticSkipped ==
  /\ pc = "critic"
  /\ ~critic_turn_due(turn, max_turns, instruction.to)
  /\ pc' = "loop"
  /\ UNCHANGED <<vars_director, max_turns, turn, dialogue, narrator_text, critic_text,
                 instruction, narrator_prompt, turn_start, analysis,
                 vars_classify, vars_context, vars_tools>>

\* the narrator goes on after the critic: get_narrator_response(critic_text)
BalancedContinuationSpeaks ==
  /\ pc = "continue"
  /\ continuation_due(turn, max_turns, instruction.to)
  /\ \E returned \in BalancedNarratorResponses :
       /\ narrator_text' = returned
       /\ dialogue' = Append(dialogue, balanced_entry("narrator", returned))
  /\ narrator_prompt' = balanced_narrator_template(turn, critic_text, "continue")
  /\ pc' = "loop"
  /\ UNCHANGED <<vars_director, max_turns, turn, critic_text, instruction, turn_start,
                 analysis, vars_classify, vars_context, vars_tools>>

BalancedContinuationRaises ==
  /\ pc = "continue"
  /\ continuation_due(turn, max_turns, instruction.to)
  /\ narrator_prompt' = balanced_narrator_template(turn, critic_text, "continue")
  /\ pc' = "raised"
  /\ UNCHANGED <<vars_director, max_turns, turn, dialogue, narrator_text, critic_text,
                 instruction, turn_start, analysis, vars_classify, vars_context, vars_tools>>

BalancedContinuationSkipped ==
  /\ pc = "continue"
  /\ ~continuation_due(turn, max_turns, instruction.to)
  /\ pc' = "loop"
  /\ UNCHANGED <<vars_director, max_turns, turn, dialogue, narrator_text, critic_text,
                 instruction, narrator_prompt, turn_start, analysis,
                 vars_classify, vars_context, vars_tools>>

\* return self.dialogue
BalancedReturn ==
  /\ pc \in {"start", "loop"}
  /\ next_turn >= max_turns
  /\ pc' = "done"
  /\ UNCHANGED <<vars_director, max_turns, turn, dialogue, narrator_text, critic_text,
                 instruction, narrator_prompt, turn_start, analysis,
                 vars_classify, vars_context, vars_tools>>

NextBalanced ==
  \/ BalancedDirect
  \/ BalancedNarratorSpeaks \/ BalancedNarratorRaises \/ BalancedNarratorSkipped
  \/ BalancedCriticSpeaks \/ BalancedCriticRaises \/ BalancedCriticSkipped
  \/ BalancedContinuationSpeaks \/ BalancedContinuationRaises
  \/ BalancedContinuationSkipped
  \/ BalancedReturn
SpecBalanced == InitBalanced /\ [][NextBalanced]_vars

\* C29: in BalancedLLMSystem.run_dialogue, once the Director's
\* contradiction_count exceeds 2 the state is absorbing for the rest of the
\* run: every later instruction is narrator/progress, no further critic entry
\* is appended and contradiction_count never changes again, so
\* contradiction_count <= 3 in every reachable state.
C29_Absorbing ==
  /\ [](contradiction_count <= 3)
  /\ [][contradiction_count > 2 =>
          /\ contradiction_count' = contradiction_count
          /\ instruction' # instruction
               => (instruction'.to = "narrator" /\ instruction'.action = "progress")
          /\ (pc \in {"start", "loop"} /\ pc' = "narrator")
               => (instruction'.to = "narrator" /\ instruction'.action = "progress")
          /\ Len(dialogue') > Len(dialogue)
               => dialogue'[Len(dialogue')].role = "narrator"]_vars

\* a run of 8 turns has returned with 3 contradictions pointed out, the last
\* of them before turn 5, and narrator entries only since
C29_Witness ==
  /\ pc = "done" /\ max_turns = 8
  /\ contradiction_count = 3
  /\ last_contradiction_turn < 5
  /\ instruction.action = "progress"
  /\ \A i \in (Len(dialogue) - 2)..Len(dialogue) : dialogue[i].role = "narrator"

(***************************************************************************)
(* analyze_critic_response of the SmartDirector of src/src/components.py   *)
(* on its own, over the texts made of at most MaxPieces of the pieces      *)
(* below.  It counts the questions in question_count.                      *)
(***************************************************************************)
ComponentsClassifyPieces ==
  {NAIQ, JANAIQ, QMARK, EXCLAMATION, OO, SUGOI, <<"x">>, <<"x", "y", "x">>}
ComponentsClassifyTexts ==
  {Flatten(ps) : ps \in SeqUpTo(ComponentsClassifyPieces, MaxPieces)}

InitComponentsClassify ==
  /\ text \in ComponentsClassifyTexts
  /\ pattern = "none"
  /\ variant = "components"
  /\ question_count = 0
  /\ FreshDirector /\ IdleRun /\ IdleContext /\ IdleText /\ IdleMain

ComponentsClassify ==
  /\ pattern = "none"
  /\ pattern' = components_analyze_critic_response(text)
  /\ question_count' = IF components_analyze_critic_response(text) = "question"
                       THEN question_count + 1 ELSE question_count
  /\ UNCHANGED <<text, variant, vars_director, vars_run, vars_context, vars_text, vars_main>>

NextComponentsClassify == ComponentsClassify
SpecComponentsClassify == InitComponentsClassify /\ [][NextComponentsClassify]_vars

\* C30: in src/src/components.py, SmartDirector.analyze_critic_response
\* returns, for every text, one of the four patterns its documentation lists:
\* contradiction, question, backchannel or comment.
C30_FourPatterns ==
  pattern # "none" => pattern \in {"contradiction", "question", "backchannel", "comment"}
====
